---------------------------- MODULE Spec2Model ----------------------------
(***************************************************************************)
(* PubSub control plane of open62541: PubSubConnections, their             *)
(* ReaderGroups and DataSetReaders, the per-entity state machine, the      *)
(* configuration freeze and the cyclic subscribe callback.                 *)
(*                                                                         *)
(* Modelled from src/src/pubsub/ua_pubsub_connection.c and                 *)
(* src/src/pubsub/ua_pubsub_readergroup.c.  Every C function is an         *)
(* operator from a server state S (a record) to a result [S, ret]; the     *)
(* actions apply the entry points to the current state.                    *)
(***************************************************************************)
EXTENDS Integers, Sequences, FiniteSets, TLC

VARIABLES
    connections,   \* connection id -> UA_PubSubConnection, Unused or Freed
    manager,       \* server->pubSubManager: the list of connections, its
                   \* size and the identifier generator
    readerGroups,  \* reader group id -> UA_ReaderGroup, Unused or Freed
    eventLoop,     \* the cyclic callbacks registered on the EventLoop
    serviceMutex,  \* server->serviceMutex: how often it is acquired
    fault,         \* the fault that ended the process, if any
    scenario       \* the configurations the application uses in this run

vars == <<connections, manager, readerGroups, eventLoop, serviceMutex, fault,
          scenario>>

---------------------------------------------------------------------------
(* Bounds of the model *)

\* Connections ever created.
MaxConns == 1
\* ReaderGroups ever created.
MaxGroups == 2
\* DataSetReaders of one ReaderGroup.
MaxReaders == 1
\* How far the freeze counter of a connection may wrap below zero.
MaxUnderflow == 1

\* The identifiers the manager issues: connections and reader groups draw
\* them from one generator and they are never reused.
Ids == 1..(MaxConns + MaxGroups)
ConnIds == Ids
GroupIds == Ids

---------------------------------------------------------------------------
(* Values *)

Disabled == "Disabled"
Paused == "Paused"
PreOperational == "PreOperational"
Operational == "Operational"
Error == "Error"
\* A UA_PubSubState value outside the enumeration.
UnknownState == "Unknown"

PubSubStates == {Disabled, Paused, PreOperational, Operational, Error}
RequestStates == PubSubStates \cup {UnknownState}

Good == "Good"
BadInternalError == "BadInternalError"
BadInvalidArgument == "BadInvalidArgument"
BadNotSupported == "BadNotSupported"
BadNotImplemented == "BadNotImplemented"
BadNotFound == "BadNotFound"
BadConfigurationError == "BadConfigurationError"
BadResourceUnavailable == "BadResourceUnavailable"
BadShutdown == "BadShutdown"
BadConnectionClosed == "BadConnectionClosed"
\* The status of a failed transport connect / channel registration.
BadCommunicationError == "BadCommunicationError"
BadOutOfMemory == "BadOutOfMemory"
\* LIST_FIRST of an empty reader list is dereferenced: the process faults.
NullDereference == "NullDereference"

RtNone == "None"
RtFixedSize == "FixedSize"

\* A table slot: an identifier not issued yet, or an entity whose memory
\* has been released.  A live entity has mem = "Allocated".
Unused == [mem |-> "Unused"]
Freed == [mem |-> "Freed"]

\* UA_UInt16 arithmetic of configurationFreezeCounter.
UInt16(x) == x % 65536

Live(tab, id) == id \in DOMAIN tab /\ tab[id].mem = "Allocated"

---------------------------------------------------------------------------
(* DataSetReader configurations *)

\* node: the NodeStore holds the target node of the field; external: the
\* node has an external value backend.
NumericField ==
    [type |-> "Numeric", maxStringLength |-> 0, node |-> TRUE, external |-> TRUE]
DynStringField ==
    [type |-> "String", maxStringLength |-> 0, node |-> TRUE, external |-> TRUE]

\* A reader the RT fixed-size path accepts.
CompliantReader ==
    [uadp |-> TRUE, publisherIdPointerFree |-> TRUE, fields |-> <<NumericField>>]
\* A reader with a String field of dynamic length (maxStringLength = 0).
DynStringReader ==
    [uadp |-> TRUE, publisherIdPointerFree |-> TRUE, fields |-> <<DynStringField>>]

\* UA_ReaderGroupConfig: the fields the control plane reads.
SecurityNone == "None"
SecuritySign == "Sign"
SecuritySignAndEncrypt == "SignAndEncrypt"
EncodingUadp == "UADP"
EncodingJson == "JSON"
\* An empty UA_String.
EmptyString == ""

GroupConfig(rt, blocking, custom) ==
    [rtLevel |-> rt, enableBlockingSocket |-> blocking, addCustomCallback |-> custom,
     name |-> "ReaderGroup", groupProperties |-> "properties",
     encodingMimeType |-> EncodingUadp, securityMode |-> SecurityNone,
     securityGroupId |-> EmptyString, securityPolicy |-> FALSE]

\* A UA_ReaderGroupConfig with message security.
SecureGroupConfig(mime, mode, sgid, policy) ==
    [GroupConfig(RtNone, FALSE, FALSE) EXCEPT
        !.encodingMimeType = mime, !.securityMode = mode,
        !.securityGroupId = sgid, !.securityPolicy = policy]

\* A null pointer passed as the ReaderGroup configuration.
NullConfig == [null |-> TRUE]

\* UA_PubSubConnectionConfig: the transport profile of the connection.
UdpProfile == "http://opcfoundation.org/UA-Profile/Transport/pubsub-udp-uadp"
MqttProfile == "http://opcfoundation.org/UA-Profile/Transport/pubsub-mqtt"
ConnectionConfig(uri) ==
    [transportProfileUri |-> uri, name |-> "Connection",
     publisherIdType |-> "String", publisherId |-> "publisher",
     address |-> "opc.udp://224.0.0.22:4840/",
     connectionTransportSettings |-> "settings",
     connectionProperties |-> "properties"]

\* The configurations of one run: every addPubSubConnection passes cc, every
\* addReaderGroup passes rgc and every addDataSetReader passes dsr.
Scenarios ==
    { [cc |-> ConnectionConfig(UdpProfile),
       rgc |-> GroupConfig(RtNone, FALSE, FALSE), dsr |-> CompliantReader],
      [cc |-> ConnectionConfig(UdpProfile),
       rgc |-> GroupConfig(RtFixedSize, FALSE, FALSE), dsr |-> CompliantReader],
      [cc |-> ConnectionConfig(UdpProfile),
       rgc |-> GroupConfig(RtFixedSize, FALSE, FALSE), dsr |-> DynStringReader],
      [cc |-> ConnectionConfig(UdpProfile),
       rgc |-> GroupConfig(RtNone, TRUE, TRUE), dsr |-> CompliantReader],
      [cc |-> ConnectionConfig(UdpProfile),
       rgc |-> GroupConfig(RtNone, TRUE, FALSE), dsr |-> CompliantReader],
      [cc |-> ConnectionConfig(MqttProfile),
       rgc |-> GroupConfig(RtNone, FALSE, FALSE), dsr |-> CompliantReader] }

\* What the environment decides during one call: whether the transport
\* connect succeeds, whether the EventLoop accepts the cyclic callback,
\* whether the channel registration succeeds, whether a tick receives a
\* NetworkMessage matching a reader, whether a read through a null
\* pointer traps, whether the allocation and the copy of the configuration
\* succeed, and whether the MQTT topic assignment succeeds.
Inputs == [connOk : BOOLEAN, elOk : BOOLEAN, registOk : BOOLEAN, rx : BOOLEAN,
           nullTrap : BOOLEAN, allocOk : BOOLEAN, topicOk : BOOLEAN,
           ksAllocOk : BOOLEAN, ksInitOk : BOOLEAN, policyOk : BOOLEAN,
           currentItem : BOOLEAN]
\* ksAllocOk, ksInitOk: the allocation and the initialisation of a key
\* storage succeed; policyOk: the call into the security policy succeeds;
\* currentItem: the key storage holds a current key.
NoInput == [connOk |-> TRUE, elOk |-> TRUE, registOk |-> TRUE, rx |-> FALSE,
            nullTrap |-> TRUE, allocOk |-> TRUE, topicOk |-> TRUE,
            ksAllocOk |-> TRUE, ksInitOk |-> TRUE, policyOk |-> TRUE,
            currentItem |-> TRUE]
\* The inputs a call can read: a connect, a registration of the cyclic
\* callback with its first tick, a channel registration, a tick.
ConnectInputs == {[NoInput EXCEPT !.connOk = ok] : ok \in BOOLEAN}
ScheduleInputs == {[NoInput EXCEPT !.elOk = ok, !.rx = rx] : ok \in BOOLEAN, rx \in BOOLEAN}
\* UA_ReaderGroup_create: no step fails, or one of them does.
RegistInputs ==
    {NoInput, [NoInput EXCEPT !.registOk = FALSE],
     [NoInput EXCEPT !.allocOk = FALSE], [NoInput EXCEPT !.topicOk = FALSE],
     [NoInput EXCEPT !.ksAllocOk = FALSE], [NoInput EXCEPT !.ksInitOk = FALSE]}
TickInputs == {[NoInput EXCEPT !.rx = rx] : rx \in BOOLEAN}
FreezeInputs == {[NoInput EXCEPT !.nullTrap = trap] : trap \in BOOLEAN}

---------------------------------------------------------------------------
(* The server state handed through the calls *)

Cur ==
    [conns |-> connections, mgr |-> manager, groups |-> readerGroups,
     el |-> eventLoop, mutex |-> serviceMutex, log |-> <<>>]

\* pubSubConfig.stateChangeCallback(server, id, state, cause): the log keeps
\* the arguments and the state the entity stores at that moment.
stateChangeCallback(S, kind, id, state, cause) ==
    LET stored == IF kind = "connection" THEN S.conns[id].state
                  ELSE S.groups[id].state
    IN [S EXCEPT !.log = Append(@, [ev |-> kind, id |-> id, state |-> state,
                                    cause |-> cause, stored |-> stored])]

LogEvent(S, ev, id) ==
    [S EXCEPT !.log = Append(@, [ev |-> ev, id |-> id, state |-> "-",
                                 cause |-> "-", stored |-> "-"])]

---------------------------------------------------------------------------
(* The service mutex *)

\* UA_LOCK(&server->serviceMutex): the mutex is not reentrant, a caller that
\* already holds it waits for itself.
UA_LOCK(S) ==
    LET S1 == [S EXCEPT !.mutex = @ + 1]
    IN IF S1.mutex = 1 THEN S1 ELSE LogEvent(S1, "deadlock", 0)

\* UA_UNLOCK(&server->serviceMutex)
UA_UNLOCK(S) == [S EXCEPT !.mutex = @ - 1]

\* UA_LOCK_ASSERT(&server->serviceMutex, 1)
UA_LOCK_ASSERT(S) ==
    IF S.mutex = 1 THEN S ELSE LogEvent(S, "mutexNotHeld", 0)

\* UA_UNLOCK before the return of a result.
Unlocked(r) == [r EXCEPT !.S = UA_UNLOCK(@)]

---------------------------------------------------------------------------
(* DataSetReader and the receive step *)

\* UA_DataSetReader_setPubSubState: stores the requested state.
UA_DataSetReader_setPubSubState(dsr, state, cause) ==
    [dsr EXCEPT !.state = state]

\* LIST_FOREACH(dataSetReader, &rg->readers, listEntry)
\*     UA_DataSetReader_setPubSubState(server, dataSetReader, state, cause);
SetReadersState(S, g, state, cause) ==
    [S EXCEPT !.groups[g].readers =
        [i \in DOMAIN @ |-> UA_DataSetReader_setPubSubState(@[i], state, cause)]]

\* UA_NetworkMessageOffsetBuffer_clear(&dsr->bufferedMessage)
UA_NetworkMessageOffsetBuffer_clear(dsr) ==
    [dsr EXCEPT !.bufferedMessage = FALSE]

RECURSIVE UA_ReaderGroup_setPubSubState(_, _, _, _, _)

\* receiveBufferedNetworkMessage: with rx a NetworkMessage matching the first
\* reader is decoded and dispatched.  A frozen fixed-size group builds the
\* reader's offset table from it; a PreOperational group is promoted.
receiveBufferedNetworkMessage(S, g, inp) ==
    LET rg == S.groups[g]
        S0 == LogEvent(S, "receive", g)
    IN IF ~inp.rx \/ Len(rg.readers) = 0
       THEN S0
       ELSE LET S1 == IF rg.config.rtLevel = RtFixedSize /\ rg.configurationFrozen
                      THEN [S0 EXCEPT !.groups[g].readers[1].bufferedMessage = TRUE]
                      ELSE S0
            IN IF rg.state = PreOperational
               THEN UA_ReaderGroup_setPubSubState(S1, g, Operational, Good, inp).S
               ELSE S1

---------------------------------------------------------------------------
(* Subscribe callback *)

\* static void subscribeCallback(server, readerGroup)
subscribeCallback(S, g, inp) ==
    LET connection == S.groups[g].linkedConnection
    IN IF connection = 0
       THEN UA_ReaderGroup_setPubSubState(S, g, Error, BadConnectionClosed, inp).S
       ELSE receiveBufferedNetworkMessage(S, g, inp)

\* static void UA_ReaderGroup_subscribeCallback(server, readerGroup): the
\* callback the EventLoop runs.
UA_ReaderGroup_subscribeCallback(S, g, inp) ==
    UA_UNLOCK(subscribeCallback(UA_LOCK(S), g, inp))

\* el->addCyclicCallback: registers the callback under a fresh non-zero id,
\* or fails and leaves the id untouched.
addCyclicCallback(el, g, ok) ==
    IF ok
    THEN LET id == CHOOSE i \in 1..(Cardinality(el) + 1) :
                       \A e \in el : e.id # i
         IN [el |-> el \cup {[id |-> id, rg |-> g]}, id |-> id, ret |-> Good]
    ELSE [el |-> el, id |-> 0, ret |-> BadInternalError]

\* el->removeCyclicCallback(el, id)
removeCyclicCallback(el, id) == {e \in el : e.id # id}

\* UA_ReaderGroup_addSubscribeCallback with the "already registered" check
\* left out.
AddSubscribeCallback_NoGuard(S, g, inp) ==
    LET rg == S.groups[g]
        r == addCyclicCallback(S.el, g, inp.elOk)
    IN IF r.ret # Good
       THEN [S |-> S, ret |-> r.ret]
       ELSE LET S1 == [S EXCEPT !.el = r.el,
                                !.groups[g].subscribeCallbackId = r.id]
            IN [S |-> IF rg.config.enableBlockingSocket # TRUE
                      THEN subscribeCallback(S1, g, inp)
                      ELSE S1,
                ret |-> r.ret]

\* UA_ReaderGroup_addSubscribeCallback running the first tick through
\* UA_ReaderGroup_subscribeCallback, which takes the mutex itself.
AddSubscribeCallback_LockingFirstTick(S, g, inp) ==
    LET rg == S.groups[g]
    IN IF rg.subscribeCallbackId # 0
       THEN [S |-> S, ret |-> BadInternalError]
       ELSE LET r == addCyclicCallback(S.el, g, inp.elOk)
            IN IF r.ret # Good
               THEN [S |-> S, ret |-> r.ret]
               ELSE LET S1 == [S EXCEPT !.el = r.el,
                                        !.groups[g].subscribeCallbackId = r.id]
                    IN [S |-> IF rg.config.enableBlockingSocket # TRUE
                              THEN UA_ReaderGroup_subscribeCallback(S1, g, inp)
                              ELSE S1,
                        ret |-> r.ret]

\* UA_ReaderGroup_addSubscribeCallback running the first tick whatever
\* enableBlockingSocket says.
AddSubscribeCallback_FirstTickAlways(S, g, inp) ==
    LET rg == S.groups[g]
    IN IF rg.subscribeCallbackId # 0
       THEN [S |-> S, ret |-> BadInternalError]
       ELSE LET r == addCyclicCallback(S.el, g, inp.elOk)
            IN IF r.ret # Good
               THEN [S |-> S, ret |-> r.ret]
               ELSE LET S1 == [S EXCEPT !.el = r.el,
                                        !.groups[g].subscribeCallbackId = r.id]
                    IN [S |-> subscribeCallback(S1, g, inp), ret |-> r.ret]

UA_ReaderGroup_addSubscribeCallback(S, g, inp) ==
    LET rg == S.groups[g]
    IN IF rg.subscribeCallbackId # 0
       THEN [S |-> S, ret |-> BadInternalError]
       ELSE LET r == addCyclicCallback(S.el, g, inp.elOk)
            IN IF r.ret # Good
               THEN [S |-> S, ret |-> r.ret]
               ELSE LET S1 == [S EXCEPT !.el = r.el,
                                        !.groups[g].subscribeCallbackId = r.id]
                    IN [S |-> IF rg.config.enableBlockingSocket # TRUE
                              THEN subscribeCallback(S1, g, inp)
                              ELSE S1,
                        ret |-> r.ret]

\* UA_ReaderGroup_removeSubscribeCallback that clears the id and leaves the
\* callback with the EventLoop.
RemoveSubscribeCallback_KeepRegistered(S, g) ==
    [S EXCEPT !.groups[g].subscribeCallbackId = 0]

UA_ReaderGroup_removeSubscribeCallback(S, g) ==
    LET rg == S.groups[g]
    IN [S EXCEPT !.el = IF rg.subscribeCallbackId # 0
                        THEN removeCyclicCallback(@, rg.subscribeCallbackId)
                        ELSE @,
                 !.groups[g].subscribeCallbackId = 0]

---------------------------------------------------------------------------
(* ReaderGroup state machine *)

UA_ReaderGroup_setPubSubState_disable(S, g, cause) ==
    LET state == S.groups[g].state
    IN CASE state = Disabled -> [S |-> S, ret |-> Good]
         [] state = Paused -> [S |-> S, ret |-> Good]
         [] state \in {Operational, PreOperational} ->
              LET S1 == UA_ReaderGroup_removeSubscribeCallback(S, g)
                  S2 == SetReadersState(S1, g, Disabled, cause)
              IN [S |-> [S2 EXCEPT !.groups[g].state = Disabled], ret |-> Good]
         [] state = Error -> [S |-> S, ret |-> Good]
         [] OTHER -> [S |-> S, ret |-> BadInternalError]

UA_ReaderGroup_setPubSubState_paused(S, g, cause) ==
    LET state == S.groups[g].state
    IN CASE state = Disabled ->
              [S |-> [S EXCEPT !.groups[g].state = Paused], ret |-> Good]
         [] state = Paused -> [S |-> S, ret |-> Good]
         [] state \in {Operational, PreOperational} ->
              [S |-> S, ret |-> BadNotSupported]
         [] state = Error -> [S |-> S, ret |-> BadNotSupported]
         [] OTHER -> [S |-> S, ret |-> BadInternalError]

UA_ReaderGroup_setPubSubState_preoperational(S, g, cause, inp) ==
    LET state == S.groups[g].state
    IN CASE state \in {Disabled, Paused} ->
              LET S1 == [S EXCEPT !.groups[g].state = PreOperational]
              IN [S |-> UA_ReaderGroup_addSubscribeCallback(S1, g, inp).S,
                  ret |-> Good]
         [] state = PreOperational -> [S |-> S, ret |-> Good]
         [] state = Operational -> [S |-> S, ret |-> Good]
         [] state = Error -> [S |-> S, ret |-> BadNotSupported]
         [] OTHER -> [S |-> S, ret |-> BadInternalError]

\* UA_ReaderGroup_setPubSubState_operational that does not pass the state
\* on to the DataSetReaders.
Operational_NoReaderUpdate(S, g, cause) ==
    LET rg == S.groups[g]
        state == IF Len(rg.readers) = 0 \/
                    (rg.config.rtLevel = RtFixedSize /\ rg.configurationFrozen /\
                     ~rg.readers[1].bufferedMessage)
                 THEN PreOperational
                 ELSE Operational
        oldstate == rg.state
        S1 == [S EXCEPT !.groups[g].state = state]
    IN CASE oldstate = Disabled -> [S |-> S1, ret |-> BadNotSupported]
         [] oldstate \in {Operational, PreOperational} -> [S |-> S1, ret |-> Good]
         [] oldstate = Error -> [S |-> S1, ret |-> BadNotSupported]
         [] OTHER -> [S |-> [S1 EXCEPT !.groups[g].state = Error],
                      ret |-> BadInternalError]

UA_ReaderGroup_setPubSubState_operational(S, g, cause) ==
    LET rg == S.groups[g]
        state == IF Len(rg.readers) = 0 \/
                    (rg.config.rtLevel = RtFixedSize /\ rg.configurationFrozen /\
                     ~rg.readers[1].bufferedMessage)
                 THEN PreOperational
                 ELSE Operational
        oldstate == rg.state
        S1 == [S EXCEPT !.groups[g].state = state]
    IN CASE oldstate = Disabled -> [S |-> S1, ret |-> BadNotSupported]
         [] oldstate \in {Operational, PreOperational} ->
              [S |-> SetReadersState(S1, g, state, cause), ret |-> Good]
         [] oldstate = Error -> [S |-> S1, ret |-> BadNotSupported]
         [] OTHER -> [S |-> [S1 EXCEPT !.groups[g].state = Error],
                      ret |-> BadInternalError]

UA_ReaderGroup_setPubSubState_error(S, g, cause) ==
    LET state == S.groups[g].state
    IN CASE state \in {Disabled, Paused} ->
              [S |-> [S EXCEPT !.groups[g].state = Error], ret |-> Good]
         [] state \in {Operational, PreOperational} ->
              LET S1 == UA_ReaderGroup_removeSubscribeCallback(S, g)
                  S2 == SetReadersState(S1, g, Error, cause)
              IN [S |-> [S2 EXCEPT !.groups[g].state = Error], ret |-> Good]
         [] state = Error -> [S |-> S, ret |-> Good]
         [] OTHER -> [S |-> S, ret |-> BadInternalError]

\* UA_ReaderGroup_setPubSubState with ret initialised to BadInternalError.
SetPubSubState_UnknownIsInternalError(S, g, state, cause, inp) ==
    LET oldState == S.groups[g].state
        r == CASE state = Disabled ->
                    UA_ReaderGroup_setPubSubState_disable(S, g, cause)
               [] state = Paused ->
                    UA_ReaderGroup_setPubSubState_paused(S, g, cause)
               [] state = PreOperational ->
                    UA_ReaderGroup_setPubSubState_preoperational(S, g, cause, inp)
               [] state = Operational ->
                    UA_ReaderGroup_setPubSubState_operational(S, g, cause)
               [] state = Error ->
                    UA_ReaderGroup_setPubSubState_error(S, g, cause)
               [] OTHER -> [S |-> S, ret |-> BadInternalError]
    IN [S |-> IF state # oldState
              THEN stateChangeCallback(r.S, "readerGroup", g,
                                       r.S.groups[g].state, cause)
              ELSE r.S,
        ret |-> r.ret]

UA_ReaderGroup_setPubSubState(S0, g, state, cause, inp) ==
    LET S == UA_LOCK_ASSERT(S0) IN
    LET oldState == S.groups[g].state
        r == CASE state = Disabled ->
                    UA_ReaderGroup_setPubSubState_disable(S, g, cause)
               [] state = Paused ->
                    UA_ReaderGroup_setPubSubState_paused(S, g, cause)
               [] state = PreOperational ->
                    UA_ReaderGroup_setPubSubState_preoperational(S, g, cause, inp)
               [] state = Operational ->
                    UA_ReaderGroup_setPubSubState_operational(S, g, cause)
               [] state = Error ->
                    UA_ReaderGroup_setPubSubState_error(S, g, cause)
               [] OTHER -> [S |-> S, ret |-> BadInvalidArgument]
    IN [S |-> IF state # oldState
              THEN stateChangeCallback(r.S, "readerGroup", g,
                                       r.S.groups[g].state, cause)
              ELSE r.S,
        ret |-> r.ret]

---------------------------------------------------------------------------
(* Freezing of the configuration *)

\* The per-field loop of UA_ReaderGroup_freezeConfiguration, from field i on.
\* UA_NODESTORE_GET: the node of field i, 0 (NULL) if the NodeStore has none.
UA_NODESTORE_GET(S, field, i) ==
    LET rtNode == IF field.node THEN i ELSE 0
    IN [S |-> LogEvent(S, "nodestoreGet", rtNode), node |-> rtNode]

\* UA_NODESTORE_RELEASE
UA_NODESTORE_RELEASE(S, rtNode) == LogEvent(S, "nodestoreRelease", rtNode)

\* The loop over the fields of the reader, from field i on.
RECURSIVE FreezeCheckFields(_, _, _)
FreezeCheckFields(S, fields, i) ==
    IF i > Len(fields)
    THEN [S |-> S, ret |-> Good]
    ELSE LET field == fields[i]
             get == UA_NODESTORE_GET(S, field, i)
             released == UA_NODESTORE_RELEASE(get.S, get.node)
         IN IF get.node = 0 \/ ~field.external
            THEN [S |-> released, ret |-> BadNotSupported]
            ELSE IF field.type \in {"String", "ByteString"} /\
                    field.maxStringLength = 0
            THEN [S |-> released, ret |-> BadNotSupported]
            ELSE IF field.type # "Numeric" /\ field.type # "Boolean"
            THEN [S |-> released, ret |-> BadNotSupported]
            ELSE FreezeCheckFields(released, fields, i + 1)

\* The counter, the group and its readers are marked frozen.
FreezeMark(S, g) ==
    LET c == S.groups[g].linkedConnection
    IN [S EXCEPT !.conns[c].configurationFreezeCounter = UInt16(@ + 1),
                 !.groups[g].configurationFrozen = TRUE,
                 !.groups[g].readers =
                     [i \in DOMAIN @ |-> [@[i] EXCEPT !.configurationFrozen = TRUE]]]

\* UA_ReaderGroup_freezeConfiguration without the closing
\* UA_ReaderGroup_setPubSubState(server, rg, rg->state, Good).
Freeze_NoStateRefresh(S0, g, inp) ==
    LET S == UA_LOCK_ASSERT(S0) IN
    LET rg == S.groups[g]
        S1 == FreezeMark(S, g)
        dsrCount == Len(rg.readers)
    IN IF rg.configurationFrozen THEN [S |-> S, ret |-> Good]
       ELSE IF rg.config.rtLevel # RtFixedSize THEN [S |-> S1, ret |-> Good]
       ELSE IF dsrCount > 1 THEN [S |-> S1, ret |-> BadNotImplemented]
       ELSE IF dsrCount = 0
       THEN [S |-> S1, ret |-> IF inp.nullTrap THEN NullDereference
                               ELSE BadNotSupported]
       ELSE LET dsr == rg.readers[1]
            IN IF ~dsr.config.uadp THEN [S |-> S1, ret |-> BadNotSupported]
               ELSE IF ~dsr.config.publisherIdPointerFree
               THEN [S |-> S1, ret |-> BadNotSupported]
               ELSE LET checked == FreezeCheckFields(S1, dsr.config.fields, 1)
                    IN IF checked.ret # Good
                       THEN checked
                       ELSE [S |-> [checked.S EXCEPT !.groups[g].readers[1] =
                                       UA_NetworkMessageOffsetBuffer_clear(@)],
                             ret |-> Good]

UA_ReaderGroup_freezeConfiguration(S0, g, inp) ==
    LET S == UA_LOCK_ASSERT(S0) IN
    LET rg == S.groups[g]
        S1 == FreezeMark(S, g)
        dsrCount == Len(rg.readers)
    IN IF rg.configurationFrozen THEN [S |-> S, ret |-> Good]
       ELSE IF rg.config.rtLevel # RtFixedSize THEN [S |-> S1, ret |-> Good]
       ELSE IF dsrCount > 1 THEN [S |-> S1, ret |-> BadNotImplemented]
       \* LIST_FIRST of an empty list is NULL and dsr->config is read through
       \* it: the read traps, or it yields a value that fails the check.
       ELSE IF dsrCount = 0
       THEN [S |-> S1, ret |-> IF inp.nullTrap THEN NullDereference
                               ELSE BadNotSupported]
       ELSE LET dsr == rg.readers[1]
            IN IF ~dsr.config.uadp THEN [S |-> S1, ret |-> BadNotSupported]
               ELSE IF ~dsr.config.publisherIdPointerFree
               THEN [S |-> S1, ret |-> BadNotSupported]
               ELSE LET checked == FreezeCheckFields(S1, dsr.config.fields, 1)
                        S2 == [checked.S EXCEPT !.groups[g].readers[1] =
                                   UA_NetworkMessageOffsetBuffer_clear(@)]
                    IN IF checked.ret # Good
                       THEN checked
                       ELSE UA_ReaderGroup_setPubSubState(S2, g, rg.state, Good, inp)

\* UA_ReaderGroup_unfreezeConfiguration that leaves the offset buffers alone.
Unfreeze_KeepBuffer(S, g) ==
    LET c == S.groups[g].linkedConnection
    IN [S |-> [S EXCEPT !.conns[c].configurationFreezeCounter = UInt16(@ - 1),
                        !.groups[g].configurationFrozen = FALSE,
                        !.groups[g].readers =
                            [i \in DOMAIN @ |->
                                [@[i] EXCEPT !.configurationFrozen = FALSE]]],
        ret |-> Good]

UA_ReaderGroup_unfreezeConfiguration(S0, g) ==
    LET S == UA_LOCK_ASSERT(S0) IN
    LET c == S.groups[g].linkedConnection
    IN [S |-> [S EXCEPT !.conns[c].configurationFreezeCounter = UInt16(@ - 1),
                        !.groups[g].configurationFrozen = FALSE,
                        !.groups[g].readers =
                            [i \in DOMAIN @ |->
                                UA_NetworkMessageOffsetBuffer_clear(
                                    [@[i] EXCEPT !.configurationFrozen = FALSE])]],
        ret |-> Good]

---------------------------------------------------------------------------
(* ReaderGroup lifecycle *)

\* UA_ReaderGroup_findRGbyId: the groups of the linked connections.
UA_ReaderGroup_findRGbyId(S, g) ==
    \E i \in DOMAIN S.mgr.connections :
        \E j \in DOMAIN S.conns[S.mgr.connections[i]].readerGroups :
            S.conns[S.mgr.connections[i]].readerGroups[j] = g

\* UA_PubSubConnection_findConnectionbyId: the linked connections.
UA_PubSubConnection_findConnectionbyId(S, c) ==
    \E i \in DOMAIN S.mgr.connections : S.mgr.connections[i] = c

\* UA_PubSubManager_generateUniqueNodeId: the next identifier of the
\* generator.
UA_PubSubManager_generateUniqueNodeId(S) ==
    [S |-> [S EXCEPT !.mgr.uniqueIdCount = @ + 1], id |-> S.mgr.uniqueIdCount + 1]

\* UA_PubSubConnection_regist: registers the connection with its channel.
UA_PubSubConnection_regist(S, c, ok) ==
    IF ok
    THEN [S |-> [S EXCEPT !.conns[c].isRegistered = TRUE], ret |-> Good]
    ELSE [S |-> S, ret |-> BadCommunicationError]

\* UA_PubSubManager_addPubSubTopicAssign: the assignment between the
\* ReaderGroup and its MQTT topic; a failure leaves the group as it is.
UA_PubSubManager_addPubSubTopicAssign(S, g, ok) ==
    [S |-> S, ret |-> IF ok THEN Good ELSE BadOutOfMemory]

\* UA_PubSubKeyStorage_findKeyStorage: the storage of the security group in
\* the manager's list, if there is one.
UA_PubSubKeyStorage_findKeyStorage(S, securityGroupId) ==
    securityGroupId \in DOMAIN S.mgr.keyStorages

\* UA_PubSubKeyStorage_init: the storage enters the manager's list with no
\* reference, or the initialisation fails.
UA_PubSubKeyStorage_init(S, securityGroupId, ok) ==
    IF ok
    THEN [S |-> [S EXCEPT !.mgr.keyStorages =
                     [sg \in DOMAIN @ \cup {securityGroupId} |->
                         IF sg = securityGroupId THEN [referenceCount |-> 0]
                         ELSE @[sg]]],
          ret |-> Good]
    ELSE [S |-> S, ret |-> BadInternalError]

\* UA_PubSubKeyStorage_detachKeyStorage: drops one reference; the storage
\* is destroyed when none is left.
UA_PubSubKeyStorage_detachKeyStorage(S, securityGroupId) ==
    IF S.mgr.keyStorages[securityGroupId].referenceCount <= 1
    THEN [S EXCEPT !.mgr.keyStorages =
             [sg \in DOMAIN @ \ {securityGroupId} |-> @[sg]]]
    ELSE [S EXCEPT !.mgr.keyStorages[securityGroupId].referenceCount = @ - 1]

\* The key-storage step of UA_ReaderGroup_create (UA_ENABLE_PUBSUB_SKS) on
\* the group g that has just been linked.
CreateKeyStorage(S, g, rgc, inp) ==
    IF ~(/\ rgc.securityMode \in {SecuritySign, SecuritySignAndEncrypt}
         /\ rgc.securityGroupId # EmptyString
         /\ rgc.securityPolicy)
    THEN [S |-> S, ret |-> Good]
    ELSE LET sg == rgc.securityGroupId
             found == UA_PubSubKeyStorage_findKeyStorage(S, sg)
             init == UA_PubSubKeyStorage_init(S, sg, inp.ksInitOk)
             S1 == IF found THEN S ELSE init.S
         IN IF ~found /\ ~inp.ksAllocOk
            THEN [S |-> S, ret |-> BadOutOfMemory]
            \* UA_free(newGroup) with the group still in the list of the
            \* connection: the memory is released, its content stays.
            ELSE IF ~found /\ init.ret # Good
            THEN [S |-> LogEvent([S EXCEPT !.groups[g].mem = "Freed"], "free", g),
                  ret |-> init.ret]
            ELSE [S |-> [S1 EXCEPT !.groups[g].keyStorage = sg,
                                   !.mgr.keyStorages[sg].referenceCount = @ + 1],
                  ret |-> Good]

NewReaderGroup(c, rgc) ==
    [mem |-> "Allocated", linkedConnection |-> c, state |-> Disabled, configurationFrozen |-> FALSE,
     subscribeCallbackId |-> 0, config |-> rgc, readers |-> <<>>,
     securityTokenId |-> 0, nonceSequenceNumber |-> 0,
     securityPolicyContext |-> FALSE, keyStorage |-> EmptyString]

\* UA_ReaderGroup_create without the check of configurationFreezeCounter.
ReaderGroupCreate_NoFreezeCheck(S, c, rgc, inp) ==
    IF rgc = NullConfig
    THEN [S |-> S, ret |-> BadInvalidArgument]
    ELSE IF ~UA_PubSubConnection_findConnectionbyId(S, c)
    THEN [S |-> S, ret |-> BadNotFound]
    ELSE IF ~rgc.addCustomCallback /\ rgc.enableBlockingSocket
    THEN [S |-> S, ret |-> BadNotSupported]
    ELSE LET reg == IF ~S.conns[c].isRegistered
                    THEN UA_PubSubConnection_regist(S, c, inp.registOk)
                    ELSE [S |-> S, ret |-> Good]
             gen == UA_PubSubManager_generateUniqueNodeId(reg.S)
             g == gen.id
             linked == [gen.S EXCEPT
                           !.groups[g] = NewReaderGroup(c, rgc),
                           !.conns[c].readerGroups = <<g>> \o @,
                           !.conns[c].readerGroupsSize = @ + 1]
         IN IF reg.ret # Good
            THEN [S |-> reg.S, ret |-> reg.ret]
            ELSE IF ~inp.allocOk
            THEN [S |-> reg.S, ret |-> BadOutOfMemory]
            ELSE LET ks == CreateKeyStorage(linked, g, rgc, inp)
                 IN IF ks.ret # Good
                    THEN ks
                    ELSE IF S.conns[c].config.transportProfileUri = MqttProfile
                    THEN UA_PubSubManager_addPubSubTopicAssign(ks.S, g, inp.topicOk)
                    ELSE ks

UA_ReaderGroup_create(S, c, rgc, inp) ==
    IF rgc = NullConfig
    THEN [S |-> S, ret |-> BadInvalidArgument]
    ELSE IF ~UA_PubSubConnection_findConnectionbyId(S, c)
    THEN [S |-> S, ret |-> BadNotFound]
    ELSE IF ~rgc.addCustomCallback /\ rgc.enableBlockingSocket
    THEN [S |-> S, ret |-> BadNotSupported]
    ELSE IF S.conns[c].configurationFreezeCounter > 0
    THEN [S |-> S, ret |-> BadConfigurationError]
    ELSE LET reg == IF ~S.conns[c].isRegistered
                    THEN UA_PubSubConnection_regist(S, c, inp.registOk)
                    ELSE [S |-> S, ret |-> Good]
             gen == UA_PubSubManager_generateUniqueNodeId(reg.S)
             g == gen.id
             linked == [gen.S EXCEPT
                           !.groups[g] = NewReaderGroup(c, rgc),
                           !.conns[c].readerGroups = <<g>> \o @,
                           !.conns[c].readerGroupsSize = @ + 1]
         IN IF reg.ret # Good
            THEN [S |-> reg.S, ret |-> reg.ret]
            ELSE IF ~inp.allocOk
            THEN [S |-> reg.S, ret |-> BadOutOfMemory]
            ELSE LET ks == CreateKeyStorage(linked, g, rgc, inp)
                 IN IF ks.ret # Good
                    THEN ks
                    ELSE IF S.conns[c].config.transportProfileUri = MqttProfile
                    THEN UA_PubSubManager_addPubSubTopicAssign(ks.S, g, inp.topicOk)
                    ELSE ks

\* LIST_REMOVE(rg, listEntry)
ListRemove(list, x) == SelectSeq(list, LAMBDA y : y # x)

\* UA_ReaderGroup_remove without the check of configurationFrozen.
ReaderGroupRemove_NoFrozenCheck(S, g) ==
    LET rg == S.groups[g]
        pConn == rg.linkedConnection
        S1 == IF rg.state = Operational
              THEN UA_ReaderGroup_removeSubscribeCallback(S, g)
              ELSE S
        S1k == IF rg.keyStorage # EmptyString
               THEN UA_PubSubKeyStorage_detachKeyStorage(S1, rg.keyStorage)
               ELSE S1
        S2 == [S1k EXCEPT !.conns[pConn].readerGroups = ListRemove(@, g),
                          !.conns[pConn].readerGroupsSize = @ - 1,
                          !.groups[g] = Freed]
    IN [S |-> LogEvent(S2, "free", g), ret |-> Good]

UA_ReaderGroup_remove(S, g) ==
    LET rg == S.groups[g]
        pConn == rg.linkedConnection
        S1 == IF rg.state = Operational
              THEN UA_ReaderGroup_removeSubscribeCallback(S, g)
              ELSE S
        S1k == IF rg.keyStorage # EmptyString
               THEN UA_PubSubKeyStorage_detachKeyStorage(S1, rg.keyStorage)
               ELSE S1
        S2 == [S1k EXCEPT !.conns[pConn].readerGroups = ListRemove(@, g),
                          !.conns[pConn].readerGroupsSize = @ - 1,
                          !.groups[g] = Freed]
    IN IF rg.configurationFrozen
       THEN [S |-> S, ret |-> BadConfigurationError]
       ELSE [S |-> LogEvent(S2, "free", g), ret |-> Good]

\* UA_DataSetReader_create: a reader linked at the head of the group's list.
NewDataSetReader(cfg) ==
    [state |-> Disabled, configurationFrozen |-> FALSE,
     bufferedMessage |-> FALSE, config |-> cfg]

UA_DataSetReader_create(S, g, cfg) ==
    IF S.groups[g].configurationFrozen
    THEN [S |-> S, ret |-> BadConfigurationError]
    ELSE [S |-> [S EXCEPT !.groups[g].readers = <<NewDataSetReader(cfg)>> \o @],
          ret |-> Good]

---------------------------------------------------------------------------
(* PubSubConnection *)

\* UA_PubSubConnection_connect: opens the send channel, or fails.
UA_PubSubConnection_connect(S, c, ok) ==
    IF ok
    THEN [S |-> [S EXCEPT !.conns[c].sendChannel = 1], ret |-> Good]
    ELSE [S |-> S, ret |-> BadCommunicationError]

\* UA_PubSubConnection_disconnect: asks the EventLoop to close the open
\* channels; each one closes later (ChannelClosed).
UA_PubSubConnection_disconnect(S, c) == S

\* LIST_FOREACH(readerGroup, &c->readerGroups, listEntry)
\*     UA_ReaderGroup_setPubSubState(server, readerGroup, state,
\*                                   UA_STATUSCODE_BADRESOURCEUNAVAILABLE);
RECURSIVE SetReaderGroupsState(_, _, _, _)
SetReaderGroupsState(S, gs, state, inp) ==
    IF gs = <<>>
    THEN S
    ELSE SetReaderGroupsState(
             UA_ReaderGroup_setPubSubState(S, Head(gs), state,
                                           BadResourceUnavailable, inp).S,
             Tail(gs), state, inp)

RECURSIVE UA_PubSubConnection_setPubSubState(_, _, _, _, _)
UA_PubSubConnection_setPubSubState(S0, c, state, cause, inp) ==
    LET S == UA_LOCK_ASSERT(S0) IN
    LET oldState == S.conns[c].state
        r == CASE state \in {Error, Paused, Disabled} ->
                    IF state = oldState
                    THEN [S |-> S, ret |-> Good]
                    ELSE LET S1 == [S EXCEPT !.conns[c].state = state]
                             S2 == UA_PubSubConnection_disconnect(S1, c)
                         IN [S |-> SetReaderGroupsState(
                                       S2, S2.conns[c].readerGroups, state, inp),
                             ret |-> Good]
               [] state \in {PreOperational, Operational} ->
                    LET S1 == [S EXCEPT !.conns[c].state =
                                   IF oldState \in {PreOperational, Operational}
                                   THEN Operational
                                   ELSE PreOperational]
                        con == UA_PubSubConnection_connect(S1, c, inp.connOk)
                    IN IF con.ret # Good
                       THEN [S |-> UA_PubSubConnection_setPubSubState(
                                       con.S, c, Error, con.ret, inp).S,
                             ret |-> con.ret]
                       ELSE con
               [] OTHER -> [S |-> S, ret |-> BadInternalError]
    IN IF state \notin PubSubStates
       THEN r
       ELSE [S |-> IF r.S.conns[c].state # oldState
                   THEN stateChangeCallback(r.S, "connection", c, state, cause)
                   ELSE r.S,
             ret |-> r.ret]

\* LIST_FOREACH_SAFE over the reader groups in UA_PubSubConnection_delete.
RECURSIVE DeleteReaderGroups(_, _, _)
DeleteReaderGroups(S, gs, inp) ==
    IF gs = <<>>
    THEN S
    ELSE LET g == Head(gs)
             S1 == UA_ReaderGroup_setPubSubState(S, g, Disabled, BadShutdown, inp).S
             S2 == UA_ReaderGroup_unfreezeConfiguration(S1, g).S
             S3 == UA_ReaderGroup_remove(S2, g).S
         IN DeleteReaderGroups(S3, Tail(gs), inp)

\* UA_PubSubConnection_delete scheduling the delayed free without looking at
\* the open channels.
ConnectionDelete_ScheduleAlways(S, c, inp) ==
    LET S1 == DeleteReaderGroups(S, S.conns[c].readerGroups, inp)
        S2 == IF ~S1.conns[c].deleteFlag
              THEN [UA_PubSubConnection_disconnect(S1, c) EXCEPT
                       !.mgr.connections = ListRemove(@, c),
                       !.mgr.connectionsSize = @ - 1]
              ELSE S1
        S3 == [S2 EXCEPT !.conns[c].deleteFlag = TRUE]
    IN LogEvent([S3 EXCEPT !.conns[c].delayedCallbacks = @ + 1],
                "addDelayedCallback", c)

\* UA_PubSubConnection_delete without the TAILQ_REMOVE: the connection keeps
\* its place in the Manager list.
ConnectionDelete_KeepLinked(S, c, inp) ==
    LET S1 == DeleteReaderGroups(S, S.conns[c].readerGroups, inp)
        S2 == IF ~S1.conns[c].deleteFlag
              THEN [UA_PubSubConnection_disconnect(S1, c) EXCEPT
                       !.mgr.connectionsSize = @ - 1]
              ELSE S1
        S3 == [S2 EXCEPT !.conns[c].deleteFlag = TRUE]
    IN IF S3.conns[c].sendChannel = 0 /\ S3.conns[c].recvChannelsSize = 0
       THEN LogEvent([S3 EXCEPT !.conns[c].delayedCallbacks = @ + 1],
                     "addDelayedCallback", c)
       ELSE S3

UA_PubSubConnection_delete(S0, c, inp) ==
    LET S == UA_LOCK_ASSERT(S0) IN
    LET S1 == DeleteReaderGroups(S, S.conns[c].readerGroups, inp)
        S2 == IF ~S1.conns[c].deleteFlag
              THEN [UA_PubSubConnection_disconnect(S1, c) EXCEPT
                       !.mgr.connections = ListRemove(@, c),
                       !.mgr.connectionsSize = @ - 1]
              ELSE S1
        S3 == [S2 EXCEPT !.conns[c].deleteFlag = TRUE]
    IN IF S3.conns[c].sendChannel = 0 /\ S3.conns[c].recvChannelsSize = 0
       THEN LogEvent([S3 EXCEPT !.conns[c].delayedCallbacks = @ + 1],
                     "addDelayedCallback", c)
       ELSE S3

NewConnection(cc) ==
    [mem |-> "Allocated", config |-> cc, state |-> Disabled, configurationFreezeCounter |-> 0, deleteFlag |-> FALSE,
     isRegistered |-> FALSE, sendChannel |-> 0, recvChannelsSize |-> 0,
     readerGroups |-> <<>>, readerGroupsSize |-> 0, delayedCallbacks |-> 0]

\* UA_PubSubConnection_create without the UA_PubSubConnection_delete after a
\* failed setPubSubState.
ConnectionCreate_KeepOnFailure(S, cc, inp) ==
    LET gen == UA_PubSubManager_generateUniqueNodeId(S)
        c == gen.id
        S1 == [gen.S EXCEPT !.conns[c] = NewConnection(cc),
                        !.mgr.connections = <<c>> \o @,
                        !.mgr.connectionsSize = @ + 1]
    IN UA_PubSubConnection_setPubSubState(S1, c, Operational, Good, inp)

\* UA_PubSubConnection_create that links the connection and requests no
\* state.
ConnectionCreate_NoStateRequest(S, cc, inp) ==
    LET gen == UA_PubSubManager_generateUniqueNodeId(S)
        c == gen.id
    IN [S |-> [gen.S EXCEPT !.conns[c] = NewConnection(cc),
                            !.mgr.connections = <<c>> \o @,
                            !.mgr.connectionsSize = @ + 1],
        ret |-> Good]

\* inp.allocOk: UA_calloc and the copy of the configuration succeed.
UA_PubSubConnection_create(S, cc, inp) ==
    LET gen == UA_PubSubManager_generateUniqueNodeId(S)
        c == gen.id
        S1 == [gen.S EXCEPT !.conns[c] = NewConnection(cc),
                        !.mgr.connections = <<c>> \o @,
                        !.mgr.connectionsSize = @ + 1]
        r == UA_PubSubConnection_setPubSubState(S1, c, Operational, Good, inp)
    IN IF cc = NullConfig
       THEN [S |-> S, ret |-> BadInternalError]
       ELSE IF ~inp.allocOk
       THEN [S |-> S, ret |-> BadOutOfMemory]
       ELSE IF r.ret # Good
       THEN [S |-> UA_PubSubConnection_delete(r.S, c, inp), ret |-> r.ret]
       ELSE r

UA_Server_addPubSubConnection(S0, cc, inp) ==
    LET S == UA_LOCK(S0)
    IN Unlocked(UA_PubSubConnection_create(S, cc, inp))

UA_Server_removePubSubConnection(S0, c, inp) ==
    LET S == UA_LOCK(S0)
    IN Unlocked(
        IF ~UA_PubSubConnection_findConnectionbyId(S, c)
        THEN [S |-> S, ret |-> BadNotFound]
        ELSE LET S1 == UA_PubSubConnection_setPubSubState(S, c, Disabled, Good, inp).S
             IN [S |-> UA_PubSubConnection_delete(S1, c, inp), ret |-> Good])

---------------------------------------------------------------------------
(* Public ReaderGroup API *)

UA_Server_addReaderGroup(S0, c, rgc, inp) ==
    LET S == UA_LOCK(S0)
    IN Unlocked(UA_ReaderGroup_create(S, c, rgc, inp))

UA_Server_removeReaderGroup(S0, g) ==
    LET S == UA_LOCK(S0)
    IN Unlocked(
        IF ~UA_ReaderGroup_findRGbyId(S, g)
        THEN [S |-> S, ret |-> BadNotFound]
        ELSE UA_ReaderGroup_remove(S, g))

UA_Server_ReaderGroup_getState(S0, g) ==
    LET S == UA_LOCK(S0)
    IN Unlocked(
        IF UA_ReaderGroup_findRGbyId(S, g)
        THEN [S |-> S, state |-> S.groups[g].state, ret |-> Good]
        ELSE [S |-> S, state |-> "-", ret |-> BadNotFound])

\* UA_Server_enableReaderGroup that requests PreOperational whatever the
\* state of the connection.
EnableReaderGroup_AlwaysPreOperational(S0, g, inp) ==
    LET S == UA_LOCK(S0)
    IN Unlocked(
        IF ~UA_ReaderGroup_findRGbyId(S, g)
        THEN [S |-> S, ret |-> BadNotFound]
        ELSE UA_ReaderGroup_setPubSubState(S, g, PreOperational, Good, inp))

UA_Server_enableReaderGroup(S0, g, inp) ==
    LET S == UA_LOCK(S0)
    IN Unlocked(
        IF ~UA_ReaderGroup_findRGbyId(S, g)
        THEN [S |-> S, ret |-> BadNotFound]
        ELSE LET connection == S.conns[S.groups[g].linkedConnection]
             IN IF connection.state = Operational
                THEN UA_ReaderGroup_setPubSubState(S, g, PreOperational, Good, inp)
                ELSE IF connection.state \in {Disabled, Paused, PreOperational}
                THEN UA_ReaderGroup_setPubSubState(S, g, Paused, Good, inp)
                ELSE [S |-> S, ret |-> BadNotFound])

UA_Server_setReaderGroupDisabled(S0, g, inp) ==
    LET S == UA_LOCK(S0)
    IN Unlocked(
        IF ~UA_ReaderGroup_findRGbyId(S, g)
        THEN [S |-> S, ret |-> BadNotFound]
        ELSE UA_ReaderGroup_setPubSubState(S, g, Disabled,
                                           BadResourceUnavailable, inp))

UA_Server_freezeReaderGroupConfiguration(S0, g, inp) ==
    LET S == UA_LOCK(S0)
    IN Unlocked(
        IF ~UA_ReaderGroup_findRGbyId(S, g)
        THEN [S |-> S, ret |-> BadNotFound]
        ELSE UA_ReaderGroup_freezeConfiguration(S, g, inp))

UA_Server_unfreezeReaderGroupConfiguration(S0, g) ==
    LET S == UA_LOCK(S0)
    IN Unlocked(
        IF ~UA_ReaderGroup_findRGbyId(S, g)
        THEN [S |-> S, ret |-> BadNotFound]
        ELSE UA_ReaderGroup_unfreezeConfiguration(S, g))

---------------------------------------------------------------------------
(* Copies of the configurations *)

\* UA_String_copy, UA_Variant_copy, UA_KeyValueMap_copy: the copy of an
\* empty value allocates nothing and succeeds; the copy of any other value
\* fails, when the allocation fails, with BadOutOfMemory and leaves the
\* destination empty.
UA_copy(src, ok) ==
    IF ok \/ src = EmptyString
    THEN [dst |-> src, ret |-> Good]
    ELSE [dst |-> EmptyString, ret |-> BadOutOfMemory]

\* res |= x on status codes of which BadOutOfMemory is the only bad one.
StatusOr(res, x) == IF res = Good THEN x ELSE res

UA_PubSubConnectionConfig_clear(cc) ==
    [cc EXCEPT !.publisherId = IF cc.publisherIdType = "String"
                               THEN EmptyString ELSE @,
               !.name = EmptyString, !.transportProfileUri = EmptyString,
               !.connectionTransportSettings = EmptyString,
               !.address = EmptyString, !.connectionProperties = EmptyString]

ConnectionConfigBuffers ==
    <<"publisherId", "name", "address", "transportProfileUri",
      "connectionTransportSettings", "connectionProperties">>

\* ok[f]: the allocation for the copy of field f succeeds.
UA_PubSubConnectionConfig_copy(src, ok) ==
    LET publisherId == IF src.publisherIdType = "String"
                       THEN UA_copy(src.publisherId, ok.publisherId)
                       ELSE [dst |-> src.publisherId, ret |-> Good]
        name == UA_copy(src.name, ok.name)
        address == UA_copy(src.address, ok.address)
        uri == UA_copy(src.transportProfileUri, ok.transportProfileUri)
        settings == UA_copy(src.connectionTransportSettings,
                            ok.connectionTransportSettings)
        properties == UA_copy(src.connectionProperties, ok.connectionProperties)
        res == StatusOr(StatusOr(StatusOr(StatusOr(StatusOr(StatusOr(Good,
                   publisherId.ret), name.ret), address.ret), uri.ret),
                   settings.ret), properties.ret)
        dst == [src EXCEPT !.publisherId = publisherId.dst, !.name = name.dst,
                           !.address = address.dst,
                           !.transportProfileUri = uri.dst,
                           !.connectionTransportSettings = settings.dst,
                           !.connectionProperties = properties.dst]
    IN IF res # Good
       THEN [dst |-> UA_PubSubConnectionConfig_clear(dst), ret |-> res]
       ELSE [dst |-> dst, ret |-> res]

UA_ReaderGroupConfig_clear(rgc) ==
    [rgc EXCEPT !.name = EmptyString, !.groupProperties = EmptyString,
                !.securityGroupId = EmptyString]

ReaderGroupConfigBuffers == <<"name", "groupProperties", "securityGroupId">>

\* With UA_ENABLE_PUBSUB_ENCRYPTION the status of the copy of the
\* securityGroupId is assigned to res, not or-ed into it.
UA_ReaderGroupConfig_copy(src, ok) ==
    LET name == UA_copy(src.name, ok.name)
        properties == UA_copy(src.groupProperties, ok.groupProperties)
        securityGroupId == UA_copy(src.securityGroupId, ok.securityGroupId)
        res == securityGroupId.ret
        dst == [src EXCEPT !.name = name.dst,
                           !.groupProperties = properties.dst,
                           !.securityGroupId = securityGroupId.dst]
    IN IF res # Good
       THEN [dst |-> UA_ReaderGroupConfig_clear(dst), ret |-> res]
       ELSE [dst |-> dst, ret |-> res]

\* The outcomes of the allocations of one copy.
CopyOutcomes(buffers) ==
    [{buffers[i] : i \in DOMAIN buffers} -> BOOLEAN]

\* A caller's UA_ReaderGroupConfig to copy into.
OutConfig == [null |-> FALSE]

\* config: where the copy goes, NullConfig for a null pointer.
UA_Server_ReaderGroup_getConfig(S0, g, config, ok) ==
    IF config = NullConfig
    THEN [S |-> S0, config |-> config, ret |-> BadInvalidArgument]
    ELSE LET S == UA_LOCK(S0)
         IN Unlocked(
             IF ~UA_ReaderGroup_findRGbyId(S, g)
             THEN [S |-> S, config |-> config, ret |-> BadNotFound]
             ELSE LET copy == UA_ReaderGroupConfig_copy(S.groups[g].config, ok)
                  IN [S |-> S, config |-> copy.dst, ret |-> copy.ret])

---------------------------------------------------------------------------
(* Message security of a ReaderGroup *)

\* UA_PubSubKeyStorage_activateKeyToChannelContext: hands the current key
\* of the storage to the groups of the security group.
UA_PubSubKeyStorage_activateKeyToChannelContext(S, g, securityGroupId, ok) ==
    [S |-> S, ret |-> IF ok THEN Good ELSE BadInternalError]

\* inp.currentItem: the key storage of the group holds a current key.
UA_Server_setReaderGroupActivateKey(S0, g, inp) ==
    LET S == UA_LOCK(S0)
        ret == BadNotFound
    IN Unlocked(
        IF ~UA_ReaderGroup_findRGbyId(S, g)
        THEN [S |-> S, ret |-> ret]
        ELSE LET rg == S.groups[g]
                 r == UA_PubSubKeyStorage_activateKeyToChannelContext(
                          S, g, rg.config.securityGroupId, inp.policyOk)
             IN IF rg.keyStorage # EmptyString /\ inp.currentItem
                THEN IF r.ret # Good THEN r ELSE [S |-> r.S, ret |-> ret]
                ELSE [S |-> S, ret |-> ret])

\* The securityTokenIds a caller passes; a new group has token 0.
SecurityTokenIds == 0..2

\* setReaderGroupEncryptionKeys that creates a new context on every call.
EncryptionKeys_AlwaysNewContext(S, g, securityTokenId, inp) ==
    IF ~UA_ReaderGroup_findRGbyId(S, g)
    THEN [S |-> S, ret |-> BadNotFound]
    ELSE IF S.groups[g].config.encodingMimeType = EncodingJson
    THEN [S |-> S, ret |-> BadInternalError]
    ELSE IF ~S.groups[g].config.securityPolicy
    THEN [S |-> S, ret |-> BadInternalError]
    ELSE LET S1 == IF securityTokenId # S.groups[g].securityTokenId
                   THEN [S EXCEPT !.groups[g].securityTokenId = securityTokenId,
                                  !.groups[g].nonceSequenceNumber = 1]
                   ELSE S
         IN [S |-> LogEvent([S1 EXCEPT !.groups[g].securityPolicyContext =
                                          inp.policyOk],
                            "newContext", g),
             ret |-> IF inp.policyOk THEN Good ELSE BadInternalError]

\* inp.policyOk: newContext or setSecurityKeys of the security policy
\* succeeds; a failed newContext leaves no context.
setReaderGroupEncryptionKeys(S, g, securityTokenId, inp) ==
    IF ~UA_ReaderGroup_findRGbyId(S, g)
    THEN [S |-> S, ret |-> BadNotFound]
    ELSE IF S.groups[g].config.encodingMimeType = EncodingJson
    THEN [S |-> S, ret |-> BadInternalError]
    ELSE IF ~S.groups[g].config.securityPolicy
    THEN [S |-> S, ret |-> BadInternalError]
    ELSE LET S1 == IF securityTokenId # S.groups[g].securityTokenId
                   THEN [S EXCEPT !.groups[g].securityTokenId = securityTokenId,
                                  !.groups[g].nonceSequenceNumber = 1]
                   ELSE S
         IN IF ~S1.groups[g].securityPolicyContext
            THEN [S |-> LogEvent([S1 EXCEPT !.groups[g].securityPolicyContext =
                                               inp.policyOk],
                                 "newContext", g),
                  ret |-> IF inp.policyOk THEN Good ELSE BadInternalError]
            ELSE [S |-> LogEvent(S1, "setSecurityKeys", g),
                  ret |-> IF inp.policyOk THEN Good ELSE BadInternalError]

UA_Server_setReaderGroupEncryptionKeys(S0, g, securityTokenId, inp) ==
    LET S == UA_LOCK(S0)
    IN Unlocked(setReaderGroupEncryptionKeys(S, g, securityTokenId, inp))

SecurityInputs ==
    {[NoInput EXCEPT !.policyOk = ok, !.currentItem = item] :
        ok \in BOOLEAN, item \in BOOLEAN}

---------------------------------------------------------------------------
(* Actions: one per entry point *)

NoFault == "-"

\* The state after a call.  A dereferenced null pointer ends the process.
Return(r) ==
    /\ connections' = r.S.conns
    /\ manager' = r.S.mgr
    /\ readerGroups' = r.S.groups
    /\ eventLoop' = r.S.el
    /\ serviceMutex' = r.S.mutex
    /\ fault' = IF r.ret = NullDereference THEN NullDereference
                ELSE IF \E i \in DOMAIN r.S.log : r.S.log[i].ev = "deadlock"
                THEN "Deadlock"
                ELSE fault
    /\ UNCHANGED scenario

\* How far the UA_UInt16 freeze counter has wrapped below zero.
Underflow(counter) == IF counter > 32767 THEN 65536 - counter ELSE 0

Created(tab) == Cardinality({id \in Ids : tab[id].mem # "Unused"})

AddPubSubConnection ==
    /\ fault = NoFault
    /\ Created(connections) < MaxConns
    /\ \E cc \in {scenario.cc, NullConfig},
          inp \in ConnectInputs \cup {[NoInput EXCEPT !.allocOk = FALSE]} :
          Return(UA_Server_addPubSubConnection(Cur, cc, inp))

RemovePubSubConnection ==
    /\ fault = NoFault
    /\ \E c \in ConnIds :
          Return(UA_Server_removePubSubConnection(Cur, c, NoInput))

\* UA_PubSubConnection_setPubSubState requested by another part of the server.
ConnectionSetPubSubState ==
    /\ fault = NoFault
    /\ \E c \in ConnIds, state \in RequestStates :
          /\ UA_PubSubConnection_findConnectionbyId(Cur, c)
          /\ \E inp \in IF state \in {PreOperational, Operational}
                        THEN ConnectInputs ELSE {NoInput} :
                Return(Unlocked(UA_PubSubConnection_setPubSubState(
                           UA_LOCK(Cur), c, state, Good, inp)))

AddReaderGroup ==
    /\ fault = NoFault
    /\ Created(readerGroups) < MaxGroups
    /\ \E c \in ConnIds, inp \in RegistInputs :
          Return(UA_Server_addReaderGroup(Cur, c, scenario.rgc, inp))

RemoveReaderGroup ==
    /\ fault = NoFault
    /\ \E g \in GroupIds :
          Return(UA_Server_removeReaderGroup(Cur, g))

AddDataSetReader ==
    /\ fault = NoFault
    /\ \E g \in GroupIds :
          /\ UA_ReaderGroup_findRGbyId(Cur, g)
          /\ Len(readerGroups[g].readers) < MaxReaders
          /\ Return(UA_DataSetReader_create(Cur, g, scenario.dsr))

EnableReaderGroup ==
    /\ fault = NoFault
    /\ \E g \in GroupIds, inp \in ScheduleInputs :
          Return(UA_Server_enableReaderGroup(Cur, g, inp))

SetReaderGroupDisabled ==
    /\ fault = NoFault
    /\ \E g \in GroupIds :
          Return(UA_Server_setReaderGroupDisabled(Cur, g, NoInput))

\* UA_ReaderGroup_setPubSubState requested by another part of the server.
ReaderGroupSetPubSubState ==
    /\ fault = NoFault
    /\ \E g \in GroupIds, state \in RequestStates :
          /\ UA_ReaderGroup_findRGbyId(Cur, g)
          /\ \E inp \in IF state = PreOperational THEN ScheduleInputs ELSE {NoInput} :
                Return(Unlocked(UA_ReaderGroup_setPubSubState(
                           UA_LOCK(Cur), g, state, Good, inp)))

FreezeReaderGroupConfiguration ==
    /\ fault = NoFault
    /\ \E g \in GroupIds, inp \in FreezeInputs :
          Return(UA_Server_freezeReaderGroupConfiguration(Cur, g, inp))

UnfreezeReaderGroupConfiguration ==
    /\ fault = NoFault
    /\ \E g \in GroupIds :
          /\ UA_ReaderGroup_findRGbyId(Cur, g) =>
                \/ readerGroups[g].configurationFrozen
                \/ Underflow(connections[readerGroups[g].linkedConnection]
                                 .configurationFreezeCounter) < MaxUnderflow
          /\ Return(UA_Server_unfreezeReaderGroupConfiguration(Cur, g))

\* The EventLoop runs a registered cyclic callback,
\* UA_ReaderGroup_subscribeCallback.  The callback of a group that has been
\* freed reads released memory: it goes unnoticed or it ends the process.
Tick ==
    /\ fault = NoFault
    /\ \E e \in eventLoop :
          IF Live(readerGroups, e.rg)
          THEN \E inp \in TickInputs :
                  Return([S |-> UA_ReaderGroup_subscribeCallback(Cur, e.rg, inp),
                          ret |-> Good])
          ELSE /\ fault' \in {NoFault, "UseAfterFree"}
               /\ UNCHANGED <<connections, manager, readerGroups, eventLoop,
                           serviceMutex, scenario>>

\* A channel the connection asked to close has closed; a connection that is
\* being deleted runs UA_PubSubConnection_delete again.
ChannelClosed ==
    /\ fault = NoFault
    /\ \E c \in ConnIds, ch \in {"sendChannel", "recvChannelsSize"} :
          /\ Live(connections, c)
          /\ connections[c][ch] # 0
          /\ connections[c].deleteFlag \/ connections[c].state \in {Disabled, Paused, Error}
          /\ LET S1 == [UA_LOCK(Cur) EXCEPT !.conns[c][ch] = 0]
             IN Return([S |-> UA_UNLOCK(IF S1.conns[c].deleteFlag
                                        THEN UA_PubSubConnection_delete(S1, c, NoInput)
                                        ELSE S1),
                        ret |-> Good])

\* The EventLoop runs the delayed callback: delayedPubSubConnection_delete.
DelayedDelete ==
    /\ fault = NoFault
    /\ \E c \in ConnIds :
          /\ Live(connections, c)
          /\ connections[c].delayedCallbacks > 0
          /\ Return([S |-> [Cur EXCEPT !.conns[c] = Freed], ret |-> Good])

Init ==
    /\ connections = [c \in ConnIds |-> Unused]
    /\ manager = [connections |-> <<>>, connectionsSize |-> 0, uniqueIdCount |-> 0,
                  keyStorages |-> <<>>]
    /\ readerGroups = [g \in GroupIds |-> Unused]
    /\ eventLoop = {}
    /\ serviceMutex = 0
    /\ fault = NoFault
    /\ scenario \in Scenarios

Next ==
    \/ AddPubSubConnection
    \/ RemovePubSubConnection
    \/ ConnectionSetPubSubState
    \/ AddReaderGroup
    \/ RemoveReaderGroup
    \/ AddDataSetReader
    \/ EnableReaderGroup
    \/ SetReaderGroupDisabled
    \/ ReaderGroupSetPubSubState
    \/ FreezeReaderGroupConfiguration
    \/ UnfreezeReaderGroupConfiguration
    \/ Tick
    \/ ChannelClosed
    \/ DelayedDelete

Spec == Init /\ [][Next]_vars

---------------------------------------------------------------------------
(* Properties *)

LinkedConnections ==
    {c \in ConnIds : UA_PubSubConnection_findConnectionbyId(Cur, c)}

LinkedGroups ==
    {g \in GroupIds : UA_ReaderGroup_findRGbyId(Cur, g)}

\* The ReaderGroups in the list of connection c.
Children(S, c) ==
    {S.conns[c].readerGroups[i] : i \in DOMAIN S.conns[c].readerGroups}

\* The positions in the log of a call where stateChangeCallback was invoked
\* for the entity.
Notifications(log, kind, id) ==
    {i \in DOMAIN log : log[i].ev = kind /\ log[i].id = id}

\* C1: the configurationFreezeCounter of every linked connection equals the
\* number of its ReaderGroups whose configurationFrozen flag is set (and so
\* never drops below zero).
FreezeCounterCountsFrozenGroups ==
    \A c \in LinkedConnections :
        connections[c].configurationFreezeCounter =
            Cardinality({g \in Children(Cur, c) :
                            readerGroups[g].configurationFrozen})

\* C2: no ReaderGroup is PreOperational or Operational while its connection
\* is Disabled or Error.
ChildNeverMoreOperationalThanParent ==
    \A c \in LinkedConnections :
        \A g \in Children(Cur, c) :
            connections[c].state \in {Disabled, Error} =>
                readerGroups[g].state \notin {PreOperational, Operational}

\* C3: a setPubSubState call on a ReaderGroup or on a Connection invokes
\* stateChangeCallback for that entity exactly once when the entity's state
\* after the call differs from its state before, and not at all when the
\* state is unchanged.  The calls are those that make no nested call for the
\* same entity (the connect succeeds, the first tick receives nothing).
StateChangeNotifiedExactlyOnce ==
    /\ \A g \in LinkedGroups :
          \A state \in PubSubStates :
              LET r == UA_ReaderGroup_setPubSubState(Cur, g, state, Good, NoInput)
              IN Cardinality(Notifications(r.S.log, "readerGroup", g)) =
                    IF r.S.groups[g].state # readerGroups[g].state THEN 1 ELSE 0
    /\ \A c \in LinkedConnections :
          \A state \in PubSubStates :
              LET r == UA_PubSubConnection_setPubSubState(Cur, c, state, Good, NoInput)
              IN Cardinality(Notifications(r.S.log, "connection", c)) =
                    IF r.S.conns[c].state # connections[c].state THEN 1 ELSE 0

\* C4: every stateChangeCallback invoked during a setPubSubState call on a
\* ReaderGroup or on a Connection is passed the state the entity stores at
\* that moment.
NotifiedStateIsStoredState ==
    /\ \A g \in LinkedGroups :
          \A state \in PubSubStates, inp \in ScheduleInputs :
              LET log == UA_ReaderGroup_setPubSubState(Cur, g, state, Good, inp).S.log
              IN \A i \in DOMAIN log :
                    log[i].ev \in {"connection", "readerGroup"} =>
                        log[i].state = log[i].stored
    /\ \A c \in LinkedConnections :
          \A state \in PubSubStates, inp \in ConnectInputs :
              LET log == UA_PubSubConnection_setPubSubState(Cur, c, state, Good, inp).S.log
              IN \A i \in DOMAIN log :
                    log[i].ev \in {"connection", "readerGroup"} =>
                        log[i].state = log[i].stored

\* C5: when UA_PubSubConnection_setPubSubState changes a connection to
\* Disabled, Error or Paused, every ReaderGroup of the connection is in that
\* state afterwards, and the groups were requested with cause
\* BadResourceUnavailable.
ParentStatePropagatesToChildren ==
    \A c \in LinkedConnections :
        \A state \in {Disabled, Error, Paused} :
            LET r == UA_PubSubConnection_setPubSubState(Cur, c, state, Good, NoInput)
            IN connections[c].state # state =>
                  /\ r.S.conns[c].state = state
                  /\ \A g \in Children(Cur, c) : r.S.groups[g].state = state
                  /\ \A i \in DOMAIN r.S.log :
                        r.S.log[i].ev = "readerGroup" =>
                            r.S.log[i].cause = BadResourceUnavailable

\* C6 as stated: enable on a Disabled ReaderGroup whose connection is
\* Disabled or Paused moves the connection to PreOperational and the group
\* to PreOperational, registers the subscribe callback, runs one tick and
\* returns Good.
EnablePropagatesUp ==
    \A g \in LinkedGroups :
        \A inp \in ScheduleInputs :
            LET c == readerGroups[g].linkedConnection
                r == UA_Server_enableReaderGroup(Cur, g, inp)
            IN (/\ readerGroups[g].state = Disabled
                /\ connections[c].state \in {Disabled, Paused}
                /\ inp.elOk) =>
                  /\ r.ret = Good
                  /\ r.S.conns[c].state = PreOperational
                  /\ r.S.groups[g].state = PreOperational
                  /\ r.S.groups[g].subscribeCallbackId # 0
                  /\ \E i \in DOMAIN r.S.log :
                        r.S.log[i].ev = "receive" /\ r.S.log[i].id = g

\* C6 amended: enable on a Disabled ReaderGroup whose connection is Disabled
\* or Paused leaves the connection's state unchanged and moves the group from
\* Disabled to Paused; no subscribe callback is registered, no tick runs and
\* enable returns Good.
EnablePausesGroupUnderInactiveConnection ==
    \A g \in LinkedGroups :
        \A inp \in ScheduleInputs :
            LET c == readerGroups[g].linkedConnection
                r == UA_Server_enableReaderGroup(Cur, g, inp)
            IN (/\ readerGroups[g].state = Disabled
                /\ connections[c].state \in {Disabled, Paused}) =>
                  /\ r.ret = Good
                  /\ r.S.conns[c].state = connections[c].state
                  /\ r.S.groups[g].state = Paused
                  /\ r.S.groups[g].subscribeCallbackId = 0
                  /\ r.S.el = eventLoop
                  /\ \A i \in DOMAIN r.S.log : r.S.log[i].ev # "receive"

\* A Disabled ReaderGroup under a Disabled or Paused connection, which enable
\* moves to Paused.
EnableUnderInactiveConnectionHappens ==
    \E g \in LinkedGroups :
        /\ readerGroups[g].state = Disabled
        /\ connections[readerGroups[g].linkedConnection].state \in {Disabled, Paused}
        /\ UA_Server_enableReaderGroup(Cur, g, NoInput).S.groups[g].state = Paused

\* C7: removePubSubConnection notifies every Operational ReaderGroup of the
\* connection with state Disabled and cause BadResourceUnavailable, before
\* the group is unlinked and released.
RemoveConnectionNotifiesOperationalGroups ==
    \A c \in LinkedConnections :
        LET log == UA_Server_removePubSubConnection(Cur, c, NoInput).S.log
        IN \A g \in Children(Cur, c) :
              readerGroups[g].state = Operational =>
                  \E i \in Notifications(log, "readerGroup", g) :
                      /\ log[i].state = Disabled
                      /\ log[i].cause = BadResourceUnavailable
                      /\ \A j \in DOMAIN log :
                            (log[j].ev = "free" /\ log[j].id = g) => i < j

\* C8: a freeze of a fixed-size ReaderGroup that fails a validation step
\* leaves the group (its state, its configurationFrozen flag and the flags of
\* its readers) and the connection's configurationFreezeCounter as they were
\* before the call.
FailedFreezeRevertsMarking ==
    \A g \in LinkedGroups :
        LET c == readerGroups[g].linkedConnection
            r == UA_ReaderGroup_freezeConfiguration(Cur, g, NoInput)
        IN (/\ readerGroups[g].config.rtLevel = RtFixedSize
            /\ r.ret \in {BadNotSupported, BadNotImplemented}) =>
              /\ r.S.groups[g] = readerGroups[g]
              /\ r.S.conns[c].configurationFreezeCounter =
                    connections[c].configurationFreezeCounter

\* A ReaderGroup with exactly one reader whose configuration passes the
\* fixed-size validation.
CompliantSingleReader(rg) ==
    /\ Len(rg.readers) = 1
    /\ rg.readers[1].config.uadp
    /\ rg.readers[1].config.publisherIdPointerFree
    /\ FreezeCheckFields(Cur, rg.readers[1].config.fields, 1).ret = Good

\* C9: for a compliant single-reader ReaderGroup that is not frozen, freeze
\* followed by unfreeze returns the connection's configurationFreezeCounter
\* and the configurationFrozen flags of the group and of its reader to their
\* values before the freeze; the reader's bufferedMessage is clear after the
\* freeze, and after the unfreeze of any such frozen group.
FreezeUnfreezeRoundTrip ==
    \A g \in LinkedGroups :
        LET rg == readerGroups[g]
            c == rg.linkedConnection
            f == UA_Server_freezeReaderGroupConfiguration(Cur, g, NoInput)
            u == UA_Server_unfreezeReaderGroupConfiguration(f.S, g)
            v == UA_Server_unfreezeReaderGroupConfiguration(Cur, g)
        IN CompliantSingleReader(rg) =>
              /\ ~rg.configurationFrozen =>
                    /\ f.S.groups[g].configurationFrozen
                    /\ f.S.groups[g].readers[1].configurationFrozen
                    /\ ~f.S.groups[g].readers[1].bufferedMessage
                    /\ u.S.conns[c].configurationFreezeCounter =
                          connections[c].configurationFreezeCounter
                    /\ u.S.groups[g].configurationFrozen = rg.configurationFrozen
                    /\ u.S.groups[g].readers[1].configurationFrozen =
                          rg.readers[1].configurationFrozen
                    /\ ~u.S.groups[g].readers[1].bufferedMessage
              /\ rg.configurationFrozen =>
                    /\ ~v.S.groups[g].configurationFrozen
                    /\ ~v.S.groups[g].readers[1].configurationFrozen
                    /\ ~v.S.groups[g].readers[1].bufferedMessage

\* A frozen fixed-size ReaderGroup with one compliant reader whose offset
\* buffer has been built from a received message: the freeze has happened
\* and the unfreeze has a buffer to clear.
FrozenGroupWithBufferHappens ==
    \E g \in LinkedGroups :
        /\ CompliantSingleReader(readerGroups[g])
        /\ readerGroups[g].config.rtLevel = RtFixedSize
        /\ readerGroups[g].configurationFrozen
        /\ readerGroups[g].readers[1].bufferedMessage
        /\ connections[readerGroups[g].linkedConnection].configurationFreezeCounter = 1

\* The cyclic callbacks registered on the EventLoop for ReaderGroup g.
CyclicCallbacks(el, g) == {e \in el : e.rg = g}

\* C10: a linked ReaderGroup has a non-zero subscribeCallbackId exactly when
\* one cyclic callback is registered for it on the EventLoop; a registration
\* attempted while the id is non-zero returns BadInternalError and registers
\* nothing.
SubscribeCallbackRegisteredOnce ==
    \A g \in LinkedGroups :
        /\ readerGroups[g].subscribeCallbackId # 0 <=>
              Cardinality(CyclicCallbacks(eventLoop, g)) = 1
        /\ \A inp \in ScheduleInputs :
              LET r == UA_ReaderGroup_addSubscribeCallback(Cur, g, inp)
              IN readerGroups[g].subscribeCallbackId # 0 =>
                    /\ r.ret = BadInternalError
                    /\ r.S.el = eventLoop
                    /\ r.S.groups = readerGroups
                    /\ r.S.log = <<>>

\* A linked ReaderGroup whose cyclic callback is registered, on which a
\* second registration is refused.
RegisteredGroupHappens ==
    \E g \in LinkedGroups :
        /\ readerGroups[g].subscribeCallbackId # 0
        /\ CyclicCallbacks(eventLoop, g) # {}
        /\ UA_ReaderGroup_addSubscribeCallback(Cur, g, NoInput).ret = BadInternalError

\* C11: a successful removal of a ReaderGroup, through removeReaderGroup or
\* through removePubSubConnection, leaves no cyclic callback registered on
\* the EventLoop for the removed group.
RemovalCancelsSubscribeCallback ==
    /\ \A g \in LinkedGroups :
          LET r == UA_Server_removeReaderGroup(Cur, g)
          IN r.ret = Good => CyclicCallbacks(r.S.el, g) = {}
    /\ \A c \in LinkedConnections :
          LET r == UA_Server_removePubSubConnection(Cur, c, NoInput)
          IN \A g \in Children(Cur, c) :
                r.ret = Good => CyclicCallbacks(r.S.el, g) = {}

\* C12 as stated: setPubSubState with a target state outside the five
\* PubSub states returns BadInternalError and leaves the entity's state
\* unchanged, for a connection and for a ReaderGroup.
UnknownStateIsInternalError ==
    /\ \A c \in LinkedConnections :
          LET r == UA_PubSubConnection_setPubSubState(Cur, c, UnknownState, Good, NoInput)
          IN r.ret = BadInternalError /\ r.S.conns[c].state = connections[c].state
    /\ \A g \in LinkedGroups :
          LET r == UA_ReaderGroup_setPubSubState(Cur, g, UnknownState, Good, NoInput)
          IN r.ret = BadInternalError /\ r.S.groups[g].state = readerGroups[g].state

\* C12 amended: setPubSubState with a target state outside the five PubSub
\* states leaves the entity's state unchanged (nothing stored in the
\* connections, the groups or the EventLoop changes); it returns
\* BadInternalError for a connection and BadInvalidArgument for a
\* ReaderGroup.
UnknownStateIsRejected ==
    /\ \A c \in LinkedConnections :
          \A inp \in ConnectInputs :
              LET r == UA_PubSubConnection_setPubSubState(Cur, c, UnknownState, Good, inp)
              IN /\ r.ret = BadInternalError
                 /\ r.S.conns = connections
                 /\ r.S.groups = readerGroups
                 /\ r.S.el = eventLoop
    /\ \A g \in LinkedGroups :
          \A inp \in ScheduleInputs :
              LET r == UA_ReaderGroup_setPubSubState(Cur, g, UnknownState, Good, inp)
              IN /\ r.ret = BadInvalidArgument
                 /\ r.S.conns = connections
                 /\ r.S.groups = readerGroups
                 /\ r.S.el = eventLoop

\* An Operational ReaderGroup under an Operational connection, on both of
\* which a request for an unknown state is rejected.
UnknownStateRequestHappens ==
    \E g \in LinkedGroups :
        LET c == readerGroups[g].linkedConnection
        IN /\ readerGroups[g].state = Operational
           /\ connections[c].state = Operational
           /\ UA_ReaderGroup_setPubSubState(Cur, g, UnknownState, Good, NoInput).ret
                 = BadInvalidArgument
           /\ UA_PubSubConnection_setPubSubState(Cur, c, UnknownState, Good, NoInput).ret
                 = BadInternalError

\* C13: whenever UA_ReaderGroup_setPubSubState returns BadNotSupported, the
\* group's state and its subscribeCallbackId are the same as before the
\* call.
NotSupportedChangesNothing ==
    \A g \in LinkedGroups :
        \A state \in RequestStates :
            \A inp \in ScheduleInputs :
                LET r == UA_ReaderGroup_setPubSubState(Cur, g, state, Good, inp)
                IN r.ret = BadNotSupported =>
                      /\ r.S.groups[g].state = readerGroups[g].state
                      /\ r.S.groups[g].subscribeCallbackId
                            = readerGroups[g].subscribeCallbackId

\* The ReaderGroup configurations an application can pass.
GroupConfigs == {sc.rgc : sc \in Scenarios}

RemovedConnectionIsUnreachable ==
    \A c \in LinkedConnections :
        LET r == UA_Server_removePubSubConnection(Cur, c, NoInput)
        IN r.ret = Good =>
              /\ ~UA_PubSubConnection_findConnectionbyId(r.S, c)
              /\ UA_Server_removePubSubConnection(r.S, c, NoInput).ret = BadNotFound
              /\ UA_ReaderGroup_create(r.S, c, scenario.rgc, NoInput).ret = BadNotFound
              /\ \A g \in Children(Cur, c) :
                    /\ ~UA_ReaderGroup_findRGbyId(r.S, g)
                    /\ UA_Server_removeReaderGroup(r.S, g).ret = BadNotFound
                    /\ UA_Server_ReaderGroup_getState(r.S, g).ret = BadNotFound
                    /\ UA_Server_enableReaderGroup(r.S, g, NoInput).ret = BadNotFound
                    /\ UA_Server_setReaderGroupDisabled(r.S, g, NoInput).ret = BadNotFound
                    /\ UA_Server_freezeReaderGroupConfiguration(r.S, g, NoInput).ret
                          = BadNotFound
                    /\ UA_Server_unfreezeReaderGroupConfiguration(r.S, g).ret
                          = BadNotFound

\* The EventLoop runs a delayed callback in its next cycle.
FairSpec == Init /\ [][Next]_vars /\ WF_vars(DelayedDelete)

\* A connection that has been deleted, is unlinked and has no open channel.
DrainedAfterDelete(c) ==
    /\ Live(connections, c)
    /\ connections[c].deleteFlag
    /\ connections[c].sendChannel = 0
    /\ connections[c].recvChannelsSize = 0

DeleteAfterChannelClosed(c, ch) ==
    UA_UNLOCK(UA_PubSubConnection_delete(
                  [UA_LOCK(Cur) EXCEPT !.conns[c][ch] = 0], c, NoInput))

\* C17: the delayed free of a connection is scheduled only when sendChannel
\* and recvChannelsSize are both 0, never while the connection is still
\* linked in the Manager, and at most once per connection; a run of
\* UA_PubSubConnection_delete on a connection whose deleteFlag is already set
\* neither unlinks again nor decrements connectionsSize again.
DelayedFreeScheduledOnce ==
    /\ \A c \in ConnIds :
          Live(connections, c) /\ connections[c].delayedCallbacks > 0 =>
              /\ connections[c].delayedCallbacks = 1
              /\ connections[c].sendChannel = 0
              /\ connections[c].recvChannelsSize = 0
              /\ connections[c].deleteFlag
              /\ ~UA_PubSubConnection_findConnectionbyId(Cur, c)
    /\ \A c \in LinkedConnections :
          LET S1 == UA_Server_removePubSubConnection(Cur, c, NoInput).S
          IN /\ S1.conns[c].delayedCallbacks =
                   IF S1.conns[c].sendChannel = 0 /\ S1.conns[c].recvChannelsSize = 0
                   THEN 1 ELSE 0
             /\ S1.mgr.connectionsSize = manager.connectionsSize - 1
    /\ \A c \in ConnIds, ch \in {"sendChannel", "recvChannelsSize"} :
          /\ Live(connections, c)
          /\ connections[c].deleteFlag
          /\ connections[c][ch] # 0
          => LET S1 == DeleteAfterChannelClosed(c, ch)
             IN /\ S1.mgr = manager
                /\ S1.conns[c].delayedCallbacks =
                      IF S1.conns[c].sendChannel = 0 /\ S1.conns[c].recvChannelsSize = 0
                      THEN 1 ELSE 0

\* A connection being deleted whose last open channel closes: the second
\* run of UA_PubSubConnection_delete schedules the delayed free.
SecondDeleteSchedulesFree ==
    \E c \in ConnIds :
        /\ Live(connections, c)
        /\ connections[c].deleteFlag
        /\ connections[c].sendChannel # 0
        /\ connections[c].recvChannelsSize = 0
        /\ connections[c].delayedCallbacks = 0
        /\ DeleteAfterChannelClosed(c, "sendChannel").conns[c].delayedCallbacks = 1

\* C18: a connection's deleteFlag is true exactly when the connection has
\* been unlinked from the Manager list; connectionsSize equals the number
\* of connections linked in the list; and no ReaderGroup can be added to a
\* connection whose deleteFlag is true.
DeleteFlagMeansUnlinked ==
    /\ \A c \in ConnIds :
          Live(connections, c) =>
              (connections[c].deleteFlag
                  <=> ~UA_PubSubConnection_findConnectionbyId(Cur, c))
    /\ manager.connectionsSize = Cardinality(LinkedConnections)
    /\ manager.connectionsSize = Len(manager.connections)
    /\ \A c \in LinkedConnections : Live(connections, c)
    /\ \A c \in ConnIds :
          Live(connections, c) /\ connections[c].deleteFlag =>
              \A rgc \in GroupConfigs, inp \in RegistInputs :
                  LET r == UA_ReaderGroup_create(Cur, c, rgc, inp)
                  IN /\ r.ret # Good
                     /\ r.S.conns = connections
                     /\ r.S.groups = readerGroups

\* A connection that had a ReaderGroup, was removed and is not freed yet,
\* on which addReaderGroup finds nothing.
DeletedConnectionHappens ==
    \E c \in ConnIds :
        /\ Live(connections, c)
        /\ connections[c].deleteFlag
        /\ connections[c].isRegistered
        /\ manager.connectionsSize = 0
        /\ UA_ReaderGroup_create(Cur, c, scenario.rgc, NoInput).ret = BadNotFound

\* C19: when addReaderGroup returns a status other than Good, no partial
\* state remains: every connection's ReaderGroup list holds exactly the
\* groups it held before and readerGroupsSize is unchanged and equals the
\* length of the list.
FailedAddReaderGroupLeavesNothing ==
    \A c \in ConnIds :
        \A rgc \in GroupConfigs \cup {NullConfig} :
            \A inp \in RegistInputs :
                LET r == UA_ReaderGroup_create(Cur, c, rgc, inp)
                IN r.ret # Good =>
                      \A d \in LinkedConnections :
                          /\ r.S.conns[d].readerGroups = connections[d].readerGroups
                          /\ r.S.conns[d].readerGroupsSize = connections[d].readerGroupsSize
                          /\ r.S.conns[d].readerGroupsSize = Len(r.S.conns[d].readerGroups)

\* The connection configurations an application can pass.
ConnectionConfigs == {sc.cc : sc \in Scenarios}

\* C20: when the transport connect fails during addPubSubConnection, the new
\* connection is set to Error, addPubSubConnection returns the error of the
\* connect, and the connection is not left linked: the Manager's list and
\* connectionsSize are the same as before the call.
FailedConnectUnlinksConnection ==
    \A cc \in ConnectionConfigs :
        LET r == UA_PubSubConnection_create(Cur, cc, [NoInput EXCEPT !.connOk = FALSE])
            c == manager.uniqueIdCount + 1
        IN Created(connections) < MaxConns =>
              /\ r.ret = BadCommunicationError
              /\ r.S.conns[c].state = Error
              /\ r.S.conns[c].readerGroups = <<>>
              /\ ~UA_PubSubConnection_findConnectionbyId(r.S, c)
              /\ r.S.mgr.connections = manager.connections
              /\ r.S.mgr.connectionsSize = manager.connectionsSize
              /\ r.S.groups = readerGroups

\* A connection whose connect failed in addPubSubConnection: in Error,
\* unlinked, with no channel and its delayed free scheduled.
FailedConnectHappens ==
    \E c \in ConnIds :
        /\ Live(connections, c)
        /\ connections[c].state = Error
        /\ connections[c].deleteFlag
        /\ connections[c].sendChannel = 0
        /\ connections[c].delayedCallbacks = 1
        /\ manager.connections = <<>>
        /\ manager.connectionsSize = 0

\* A call that took the mutex while holding it, ran a mutator without
\* holding it, or returned without releasing it.
MutexMisused(S) ==
    \/ S.mutex # 0
    \/ \E i \in DOMAIN S.log : S.log[i].ev \in {"deadlock", "mutexNotHeld"}

ReaderGroupApiReturns(g) ==
    {UA_Server_ReaderGroup_getConfig(Cur, g, OutConfig, ok).ret :
        ok \in CopyOutcomes(ReaderGroupConfigBuffers)}
    \cup {UA_Server_ReaderGroup_getState(Cur, g).ret}
    \cup {UA_Server_enableReaderGroup(Cur, g, inp).ret : inp \in ScheduleInputs}
    \cup {UA_Server_setReaderGroupDisabled(Cur, g, NoInput).ret}
    \cup {UA_Server_freezeReaderGroupConfiguration(Cur, g, inp).ret :
             inp \in FreezeInputs}
    \cup {UA_Server_unfreezeReaderGroupConfiguration(Cur, g).ret}
    \cup {UA_Server_removeReaderGroup(Cur, g).ret}
    \cup {UA_Server_setReaderGroupActivateKey(Cur, g, inp).ret :
             inp \in SecurityInputs}

\* C22: getConfig, getState, enable, disable, freeze, unfreeze, remove and
\* activateKey return BadNotFound exactly when the identifier does not
\* resolve to a ReaderGroup linked under a linked connection; enable on a
\* group whose connection is in Error and activateKey on an existing group
\* do not return BadNotFound.
NotFoundIffIdentifierUnresolved ==
    \A g \in GroupIds :
        (BadNotFound \in ReaderGroupApiReturns(g))
            <=> ~UA_ReaderGroup_findRGbyId(Cur, g)

---------------------------------------------------------------------------
(* The security state of the ReaderGroups: the entry points that create and
   remove groups and those that set their keys, on groups with message
   security. *)

SecurityGroup == "SecurityGroup1"

SecurityScenarios ==
    { [cc |-> ConnectionConfig(UdpProfile), dsr |-> CompliantReader,
       rgc |-> SecureGroupConfig(EncodingUadp, SecuritySignAndEncrypt,
                                 SecurityGroup, TRUE)],
      [cc |-> ConnectionConfig(UdpProfile), dsr |-> CompliantReader,
       rgc |-> SecureGroupConfig(EncodingUadp, SecuritySign,
                                 SecurityGroup, FALSE)],
      [cc |-> ConnectionConfig(UdpProfile), dsr |-> CompliantReader,
       rgc |-> SecureGroupConfig(EncodingUadp, SecurityNone,
                                 EmptyString, TRUE)],
      [cc |-> ConnectionConfig(UdpProfile), dsr |-> CompliantReader,
       rgc |-> SecureGroupConfig(EncodingJson, SecuritySignAndEncrypt,
                                 SecurityGroup, TRUE)] }

SetReaderGroupEncryptionKeys ==
    /\ fault = NoFault
    /\ \E g \in GroupIds, token \in SecurityTokenIds, inp \in SecurityInputs :
          Return(UA_Server_setReaderGroupEncryptionKeys(Cur, g, token, inp))

SetReaderGroupActivateKey ==
    /\ fault = NoFault
    /\ \E g \in GroupIds, inp \in SecurityInputs :
          Return(UA_Server_setReaderGroupActivateKey(Cur, g, inp))

\* A ReaderGroup whose memory was released while it stayed in the list of
\* its connection is read by the next walk over the list: the read goes
\* unnoticed, and the entry points go on as above, or it ends the process.
FreedGroupAccess ==
    /\ fault = NoFault
    /\ \E g \in GroupIds :
          /\ UA_ReaderGroup_findRGbyId(Cur, g)
          /\ readerGroups[g].mem = "Freed"
    /\ fault' = "UseAfterFree"
    /\ UNCHANGED <<connections, manager, readerGroups, eventLoop,
                   serviceMutex, scenario>>

SecurityInit ==
    /\ connections = [c \in ConnIds |-> Unused]
    /\ manager = [connections |-> <<>>, connectionsSize |-> 0, uniqueIdCount |-> 0,
                  keyStorages |-> <<>>]
    /\ readerGroups = [g \in GroupIds |-> Unused]
    /\ eventLoop = {}
    /\ serviceMutex = 0
    /\ fault = NoFault
    /\ scenario \in SecurityScenarios

SecurityNext ==
    \/ AddPubSubConnection
    \/ RemovePubSubConnection
    \/ AddReaderGroup
    \/ RemoveReaderGroup
    \/ SetReaderGroupEncryptionKeys
    \/ SetReaderGroupActivateKey
    \/ FreedGroupAccess
    \/ ChannelClosed
    \/ DelayedDelete

SecuritySpec == SecurityInit /\ [][SecurityNext]_vars

\* How often the call that left the log called the function of the policy.
PolicyCalls(log, fn) == Cardinality({i \in DOMAIN log : log[i].ev = fn})

\* C23: on a UADP ReaderGroup with a security policy, setEncryptionKeys
\* calls newContext, once, exactly when the group has no context yet, and
\* setSecurityKeys, once, when it has one; a context once created stays.  A
\* securityTokenId different from the stored one is stored and sets
\* nonceSequenceNumber to 1; the stored one leaves both as they are.
SecurityContextCreatedWhenMissing ==
    \A g \in LinkedGroups, token \in SecurityTokenIds, inp \in SecurityInputs :
        LET rg == readerGroups[g]
            r == UA_Server_setReaderGroupEncryptionKeys(Cur, g, token, inp)
            after == r.S.groups[g]
        IN (rg.config.encodingMimeType = EncodingUadp /\ rg.config.securityPolicy)
           => /\ PolicyCalls(r.S.log, "newContext") =
                    IF rg.securityPolicyContext THEN 0 ELSE 1
              /\ PolicyCalls(r.S.log, "setSecurityKeys") =
                    IF rg.securityPolicyContext THEN 1 ELSE 0
              /\ rg.securityPolicyContext => after.securityPolicyContext
              /\ token # rg.securityTokenId =>
                    /\ after.securityTokenId = token
                    /\ after.nonceSequenceNumber = 1
              /\ token = rg.securityTokenId =>
                    /\ after.securityTokenId = rg.securityTokenId
                    /\ after.nonceSequenceNumber = rg.nonceSequenceNumber

\* C23 as stated: the context is created on the first call and every later
\* call uses setSecurityKeys.  Only setEncryptionKeys stores a
\* securityTokenId, so a group with a token other than 0 has been through
\* a call.
SecurityContextCreatedOnFirstCall ==
    \A g \in LinkedGroups, token \in SecurityTokenIds, inp \in SecurityInputs :
        LET rg == readerGroups[g]
            r == UA_Server_setReaderGroupEncryptionKeys(Cur, g, token, inp)
        IN (/\ rg.config.encodingMimeType = EncodingUadp
            /\ rg.config.securityPolicy
            /\ rg.securityTokenId # 0)
           => /\ PolicyCalls(r.S.log, "newContext") = 0
              /\ PolicyCalls(r.S.log, "setSecurityKeys") = 1

\* A group that has its context and the token 1 is given the token 2: the
\* keys of the context are updated and the nonce sequence starts again.
KeyRotationHappens ==
    \E g \in LinkedGroups :
        LET rg == readerGroups[g]
            r == UA_Server_setReaderGroupEncryptionKeys(Cur, g, 2, NoInput)
        IN /\ rg.mem = "Allocated"
           /\ rg.securityPolicyContext
           /\ rg.securityTokenId = 1
           /\ r.ret = Good
           /\ PolicyCalls(r.S.log, "setSecurityKeys") = 1
           /\ r.S.groups[g].securityTokenId = 2
           /\ r.S.groups[g].nonceSequenceNumber = 1

\* The linked ReaderGroups that hold a pointer to the key storage of the
\* security group.
KeyStorageUsers(securityGroupId) ==
    {g \in LinkedGroups : readerGroups[g].keyStorage = securityGroupId}

\* C24: the referenceCount of every key storage is the number of linked
\* ReaderGroups that hold a pointer to it, after every add, failed add and
\* remove; and every linked group with securityMode Sign or SignAndEncrypt
\* and a securityGroupId (and a security policy to initialise the storage
\* with) holds the storage of that security group.
KeyStorageReferencesAreCounted ==
    /\ \A sg \in DOMAIN manager.keyStorages :
          manager.keyStorages[sg].referenceCount = Cardinality(KeyStorageUsers(sg))
    /\ \A g \in LinkedGroups :
          LET rg == readerGroups[g]
          IN (/\ rg.config.securityMode \in {SecuritySign, SecuritySignAndEncrypt}
              /\ rg.config.securityGroupId # EmptyString
              /\ rg.config.securityPolicy)
             => /\ rg.mem = "Allocated"
                /\ rg.keyStorage = rg.config.securityGroupId
                /\ rg.keyStorage \in DOMAIN manager.keyStorages

\* The sub-copies of a copy of src that fail, by their position in the
\* order in which the copy makes them.
FailingSubCopies(src, buffers, ok) ==
    {i \in DOMAIN buffers : UA_copy(src[buffers[i]], ok[buffers[i]]).ret # Good}

\* What a copy of src with result r owes its caller: Good and a full copy
\* if no sub-copy failed, otherwise the status of the first sub-copy that
\* failed and a cleared destination.
CopyContract(src, buffers, ok, r) ==
    LET failing == FailingSubCopies(src, buffers, ok)
        first == CHOOSE i \in failing : \A j \in failing : i <= j
    IN IF failing = {}
       THEN r.ret = Good /\ r.dst = src
       ELSE /\ r.ret # Good
            /\ r.ret = UA_copy(src[buffers[first]], ok[buffers[first]]).ret
            /\ \A i \in DOMAIN buffers : r.dst[buffers[i]] = EmptyString

ConnectionConfigCopyContract ==
    \A c \in LinkedConnections, ok \in CopyOutcomes(ConnectionConfigBuffers) :
        CopyContract(connections[c].config, ConnectionConfigBuffers, ok,
                     UA_PubSubConnectionConfig_copy(connections[c].config, ok))

ReaderGroupConfigCopyContract ==
    \A g \in LinkedGroups, ok \in CopyOutcomes(ReaderGroupConfigBuffers) :
        CopyContract(readerGroups[g].config, ReaderGroupConfigBuffers, ok,
                     UA_ReaderGroupConfig_copy(readerGroups[g].config, ok))

\* C25: UA_PubSubConnectionConfig_copy and UA_ReaderGroupConfig_copy return
\* Good only if every sub-copy succeeded; if one failed they return the
\* status of the first that failed and leave the destination cleared.
ConfigCopyReportsFirstFailure ==
    /\ ConnectionConfigCopyContract
    /\ ReaderGroupConfigCopyContract

\* C26: during a UA_PubSubConnection_setPubSubState call, every
\* stateChangeCallback notification for a ReaderGroup of the connection
\* comes after the notification for the connection, whose transition caused
\* the one of the group.
ChildNotificationsFollowParent ==
    \A c \in LinkedConnections, state \in PubSubStates, inp \in ConnectInputs :
        LET log == UA_PubSubConnection_setPubSubState(
                       UA_LOCK(Cur), c, state, Good, inp).S.log
        IN \A i \in DOMAIN log :
              (log[i].ev = "readerGroup" /\ log[i].id \in Children(Cur, c))
                  => \E j \in 1..(i - 1) :
                        log[j].ev = "connection" /\ log[j].id = c

\* The identifier the next create returns.
NextIdentifier == manager.uniqueIdCount + 1

\* C27: a successful create links the new entity, findable by the returned
\* identifier, and grows the child count of its parent by one.  The create
\* of a connection requests Operational, which takes the new connection
\* from Disabled to PreOperational; the create of a ReaderGroup requests no
\* state: the new group is Disabled and no state change is notified.
CreateLinksEntity ==
    /\ \A inp \in ConnectInputs :
          LET r == UA_Server_addPubSubConnection(Cur, scenario.cc, inp)
          IN (Created(connections) < MaxConns /\ r.ret = Good)
             => /\ UA_PubSubConnection_findConnectionbyId(r.S, NextIdentifier)
                /\ r.S.mgr.connectionsSize = manager.connectionsSize + 1
                /\ r.S.conns[NextIdentifier].state = PreOperational
    /\ \A c \in LinkedConnections, inp \in RegistInputs :
          LET r == UA_Server_addReaderGroup(Cur, c, scenario.rgc, inp)
          IN (Created(readerGroups) < MaxGroups /\ r.ret = Good)
             => /\ UA_ReaderGroup_findRGbyId(r.S, NextIdentifier)
                /\ r.S.conns[c].readerGroupsSize = connections[c].readerGroupsSize + 1
                /\ r.S.groups[NextIdentifier].state = Disabled
                /\ Notifications(r.S.log, "readerGroup", NextIdentifier) = {}

\* C27 as stated: right after a successful create the new connection and
\* the new ReaderGroup are PreOperational.
CreateRequestsPreOperational ==
    /\ \A inp \in ConnectInputs :
          LET r == UA_Server_addPubSubConnection(Cur, scenario.cc, inp)
          IN (Created(connections) < MaxConns /\ r.ret = Good)
             => /\ UA_PubSubConnection_findConnectionbyId(r.S, NextIdentifier)
                /\ r.S.mgr.connectionsSize = manager.connectionsSize + 1
                /\ r.S.conns[NextIdentifier].state = PreOperational
    /\ \A c \in LinkedConnections, inp \in RegistInputs :
          LET r == UA_Server_addReaderGroup(Cur, c, scenario.rgc, inp)
          IN (Created(readerGroups) < MaxGroups /\ r.ret = Good)
             => /\ UA_ReaderGroup_findRGbyId(r.S, NextIdentifier)
                /\ r.S.conns[c].readerGroupsSize = connections[c].readerGroupsSize + 1
                /\ r.S.groups[NextIdentifier].state = PreOperational

\* A ReaderGroup is created under a connection that its own create left
\* PreOperational.
CreateUnderNewConnectionHappens ==
    \E c \in LinkedConnections :
        LET r == UA_Server_addReaderGroup(Cur, c, scenario.rgc, NoInput)
        IN /\ connections[c].state = PreOperational
           /\ connections[c].readerGroupsSize = 0
           /\ Created(readerGroups) < MaxGroups
           /\ r.ret = Good
           /\ UA_ReaderGroup_findRGbyId(r.S, NextIdentifier)
           /\ r.S.groups[NextIdentifier].state = Disabled

\* C28: a ReaderGroup in state PreOperational or Operational has its
\* cyclic subscribe callback registered: subscribeCallbackId is not 0.
ActiveGroupHasSubscribeCallback ==
    \A g \in LinkedGroups :
        readerGroups[g].state \in {PreOperational, Operational}
            => readerGroups[g].subscribeCallbackId # 0

\* C29: a ReaderGroup in state Disabled, Paused or Error has no cyclic
\* subscribe callback: its subscribeCallbackId is 0 and the EventLoop holds
\* no callback for it.
InactiveGroupHasNoSubscribeCallback ==
    \A g \in LinkedGroups :
        readerGroups[g].state \in {Disabled, Paused, Error}
            => /\ readerGroups[g].subscribeCallbackId = 0
               /\ \A e \in eventLoop : e.rg # g

\* A ReaderGroup with a registered subscribe callback is disabled: the
\* callback is cancelled and the id cleared.
DisableCancelsCallbackHappens ==
    \E g \in LinkedGroups :
        LET r == UA_Server_setReaderGroupDisabled(Cur, g, NoInput)
        IN /\ readerGroups[g].state \in {PreOperational, Operational}
           /\ readerGroups[g].subscribeCallbackId # 0
           /\ \E e \in eventLoop : e.rg = g
           /\ r.S.groups[g].state = Disabled
           /\ r.S.groups[g].subscribeCallbackId = 0
           /\ \A e \in r.S.el : e.rg # g

\* C30: UA_ReaderGroup_setPubSubState on a ReaderGroup in state Error
\* leaves the group in Error, whatever state is requested, and registers no
\* subscribe callback.
ErrorIsAbsorbing ==
    \A g \in LinkedGroups, state \in PubSubStates, inp \in ScheduleInputs :
        LET r == UA_ReaderGroup_setPubSubState(UA_LOCK(Cur), g, state, Good, inp)
        IN readerGroups[g].state = Error
           => /\ r.S.groups[g].state = Error
              /\ r.S.groups[g].subscribeCallbackId = readerGroups[g].subscribeCallbackId
              /\ r.S.el = eventLoop

\* What a disable that returned r owes a ReaderGroup g that was Paused,
\* PreOperational or Operational: if it returned Good the group is
\* Disabled and has no subscribe callback.
DisabledAfter(g, r) ==
    (readerGroups[g].state \in {Paused, PreOperational, Operational} /\ r.ret = Good)
        => /\ r.S.groups[g].state = Disabled
           /\ r.S.groups[g].subscribeCallbackId = 0
           /\ \A e \in r.S.el : e.rg # g

\* C31: after UA_Server_setReaderGroupDisabled, or the Disabled request a
\* connection passes to its groups, returns Good on a ReaderGroup that was
\* Paused, PreOperational or Operational, the group is Disabled and no
\* subscribe callback is registered for it.
DisableLeavesGroupDisabled ==
    \A g \in LinkedGroups :
        /\ DisabledAfter(g, UA_Server_setReaderGroupDisabled(Cur, g, NoInput))
        /\ DisabledAfter(g, UA_ReaderGroup_setPubSubState(
                                UA_LOCK(Cur), g, Disabled,
                                BadResourceUnavailable, NoInput))

\* C32: a successful hard freeze (rtLevel FixedSize, one reader) of an
\* Operational ReaderGroup clears the offset table of the reader and leaves
\* the group and the reader PreOperational.  On a frozen FixedSize group
\* that is PreOperational an Operational request makes the group
\* Operational if the reader has a buffered message and leaves it
\* PreOperational if not; the receive step that buffers a message makes
\* that request.  A soft freeze (rtLevel other than FixedSize) returns Good
\* and leaves the state of the group as it is.
HardFreezeDowngradesUntilMessage ==
    \A g \in LinkedGroups :
        LET rg == readerGroups[g]
        IN /\ \A inp \in FreezeInputs :
                 LET r == UA_Server_freezeReaderGroupConfiguration(Cur, g, inp)
                     after == r.S.groups[g]
                 IN /\ (/\ rg.config.rtLevel = RtFixedSize
                        /\ ~rg.configurationFrozen
                        /\ Len(rg.readers) = 1
                        /\ rg.state = Operational
                        /\ r.ret = Good)
                       => /\ after.state = PreOperational
                          /\ after.readers[1].state = PreOperational
                          /\ ~after.readers[1].bufferedMessage
                    /\ rg.config.rtLevel # RtFixedSize
                       => /\ r.ret = Good
                          /\ after.state = rg.state
           /\ (/\ rg.config.rtLevel = RtFixedSize
               /\ rg.configurationFrozen
               /\ Len(rg.readers) = 1
               /\ rg.state = PreOperational)
              => /\ LET r == UA_ReaderGroup_setPubSubState(
                                 UA_LOCK(Cur), g, Operational, Good, NoInput)
                    IN r.S.groups[g].state =
                          IF rg.readers[1].bufferedMessage
                          THEN Operational ELSE PreOperational
                 /\ \A inp \in TickInputs :
                       LET S == UA_ReaderGroup_subscribeCallback(Cur, g, inp)
                       IN S.groups[g].state =
                             IF inp.rx THEN Operational ELSE PreOperational

\* An Operational FixedSize group with one compliant reader is frozen, and
\* the receive step that follows promotes it again.
HardFreezeOfOperationalGroupHappens ==
    \E g \in LinkedGroups :
        LET rg == readerGroups[g]
            r == UA_Server_freezeReaderGroupConfiguration(Cur, g, NoInput)
            S == UA_ReaderGroup_subscribeCallback(
                     r.S, g, [NoInput EXCEPT !.rx = TRUE])
        IN /\ rg.config.rtLevel = RtFixedSize
           /\ ~rg.configurationFrozen
           /\ Len(rg.readers) = 1
           /\ rg.state = Operational
           /\ r.ret = Good
           /\ r.S.groups[g].state = PreOperational
           /\ S.groups[g].state = Operational
           /\ S.groups[g].readers[1].bufferedMessage

---------------------------------------------------------------------------
(* The freeze of ReaderGroups with up to MaxFreezeReaders DataSetReaders:
   the entry points that build a group, change its state and freeze it, on
   readers that pass and readers that fail the fixed-size validation. *)

MaxFreezeReaders == 2

\* A field whose target node the NodeStore does not hold.
MissingNodeField ==
    [type |-> "Numeric", maxStringLength |-> 0, node |-> FALSE, external |-> FALSE]
\* A field whose target node has no external value backend.
InternalValueField ==
    [type |-> "Numeric", maxStringLength |-> 0, node |-> TRUE, external |-> FALSE]

FreezeReaders ==
    { CompliantReader, DynStringReader,
      [CompliantReader EXCEPT !.fields = <<NumericField, NumericField>>],
      [CompliantReader EXCEPT !.fields = <<NumericField, MissingNodeField>>],
      [CompliantReader EXCEPT !.fields = <<InternalValueField, NumericField>>],
      [CompliantReader EXCEPT !.fields = <<NumericField, DynStringField>>],
      [CompliantReader EXCEPT !.uadp = FALSE],
      [CompliantReader EXCEPT !.publisherIdPointerFree = FALSE] }

FreezeScenarios ==
    { [cc |-> ConnectionConfig(UdpProfile),
       rgc |-> GroupConfig(RtFixedSize, FALSE, FALSE), dsr |-> dsr] :
        dsr \in FreezeReaders }
    \cup { [cc |-> ConnectionConfig(UdpProfile),
            rgc |-> GroupConfig(RtNone, FALSE, FALSE), dsr |-> CompliantReader] }

AddDataSetReaders ==
    /\ fault = NoFault
    /\ \E g \in GroupIds :
          /\ UA_ReaderGroup_findRGbyId(Cur, g)
          /\ Len(readerGroups[g].readers) < MaxFreezeReaders
          /\ Return(UA_DataSetReader_create(Cur, g, scenario.dsr))

FreezeInit ==
    /\ connections = [c \in ConnIds |-> Unused]
    /\ manager = [connections |-> <<>>, connectionsSize |-> 0, uniqueIdCount |-> 0,
                  keyStorages |-> <<>>]
    /\ readerGroups = [g \in GroupIds |-> Unused]
    /\ eventLoop = {}
    /\ serviceMutex = 0
    /\ fault = NoFault
    /\ scenario \in FreezeScenarios

FreezeNext ==
    \/ AddPubSubConnection
    \/ AddReaderGroup
    \/ AddDataSetReaders
    \/ ReaderGroupSetPubSubState
    \/ FreezeReaderGroupConfiguration
    \/ UnfreezeReaderGroupConfiguration
    \/ Tick

FreezeSpec == FreezeInit /\ [][FreezeNext]_vars

\* C33: an Operational request on a PreOperational or Operational
\* ReaderGroup leaves the group Operational if it has a DataSetReader and,
\* when it is FixedSize and frozen, its first reader has a buffered message,
\* and PreOperational otherwise; every DataSetReader of the group is in the
\* state of the group afterwards.
OperationalRequestPromotesWithReaders ==
    \A g \in LinkedGroups :
        LET rg == readerGroups[g]
            r == UA_ReaderGroup_setPubSubState(
                     UA_LOCK(Cur), g, Operational, Good, NoInput)
            after == r.S.groups[g]
            ready == /\ Len(rg.readers) >= 1
                     /\ (rg.config.rtLevel = RtFixedSize /\ rg.configurationFrozen)
                           => rg.readers[1].bufferedMessage
        IN rg.state \in {PreOperational, Operational}
           => /\ r.ret = Good
              /\ after.state = IF ready THEN Operational ELSE PreOperational
              /\ \A i \in DOMAIN after.readers :
                    after.readers[i].state = after.state

\* A PreOperational group with two readers, none of them in the state the
\* group ends in, is asked to become Operational.
GroupWithTwoReadersPromotedHappens ==
    \E g \in LinkedGroups :
        LET rg == readerGroups[g]
            r == UA_ReaderGroup_setPubSubState(
                     UA_LOCK(Cur), g, Operational, Good, NoInput)
        IN /\ rg.state = PreOperational
           /\ Len(rg.readers) = 2
           /\ \A i \in DOMAIN rg.readers : rg.readers[i].state = Disabled
           /\ r.S.groups[g].state = Operational
           /\ \A i \in DOMAIN rg.readers :
                 r.S.groups[g].readers[i].state = Operational
---------------------------------------------------------------------------
(* Decoding of a received NetworkMessage *)

BadDecodingError == "BadDecodingError"
BadSecurityChecksFailed == "BadSecurityChecksFailed"
BadEncodingLimitsExceeded == "BadEncodingLimitsExceeded"

\* The readers of the groups gs in the order of the two nested LIST_FOREACH:
\* the groups in list order, the readers of each in list order.  A position
\* is <<group, index in the reader list>>.
RECURSIVE ReaderWalk(_, _)
ReaderWalk(S, gs) ==
    IF gs = <<>>
    THEN <<>>
    ELSE [i \in DOMAIN S.groups[Head(gs)].readers |-> <<Head(gs), i>>]
         \o ReaderWalk(S, Tail(gs))

\* A received buffer: the status each decoding stage returns on it, and the
\* readers whose identifiers (PublisherId, WriterGroupId, DataSetWriterId)
\* it carries.
NetworkMessages(S, c) ==
    [headers  : {Good, BadDecodingError},
     accepted : SUBSET {ReaderWalk(S, S.conns[c].readerGroups)[k] :
                           k \in DOMAIN ReaderWalk(S, S.conns[c].readerGroups)},
     verify   : {Good, BadSecurityChecksFailed},
     payload  : {Good, BadEncodingLimitsExceeded},
     footers  : {Good, BadInternalError}]

\* UA_DataSetReader_checkIdentifier(server, nm, reader, readerGroup->config)
UA_DataSetReader_checkIdentifier(msg, position) ==
    IF position \in msg.accepted THEN Good ELSE BadNotFound

\* UA_NetworkMessage_clear(nm)
UA_NetworkMessage_clear(S, c) == LogEvent(S, "networkMessageClear", c)

\* The loops over the readers of the connection: every reader up to the
\* first one that checkIdentifier accepts is asked; processed is the
\* position of that reader in the walk, 0 if none accepts.
ChooseReaderGroup(S, c, msg) ==
    LET walk == ReaderWalk(S, S.conns[c].readerGroups)
        hits == {k \in DOMAIN walk :
                    UA_DataSetReader_checkIdentifier(msg, walk[k]) = Good}
        processed == IF hits = {} THEN 0
                     ELSE CHOOSE k \in hits : \A h \in hits : k <= h
        asked == IF processed = 0 THEN Len(walk) ELSE processed
        S1 == [S EXCEPT !.log = @ \o [k \in 1..asked |->
                   [ev |-> "checkIdentifier", id |-> walk[k][1], state |-> "-",
                    cause |-> "-", stored |-> "-"]]]
    IN [S |-> S1, processed |-> processed,
        readerGroup |-> IF processed = 0 THEN 0 ELSE walk[processed][1]]

\* decodeNetworkMessage with the payload decoded although it failed and the
\* footers decoded after it.
Decode_FootersAfterFailedPayload(S, c, msg, encryption) ==
    LET S1 == LogEvent(S, "decodeHeaders", c)
    IN IF msg.headers # Good
       THEN [S |-> UA_NetworkMessage_clear(S1, c), ret |-> msg.headers]
       ELSE
       LET chosen == IF encryption THEN ChooseReaderGroup(S1, c, msg)
                     ELSE [S |-> S1, processed |-> 0, readerGroup |-> 0]
           S2 == IF chosen.processed # 0
                 THEN LogEvent(chosen.S, "verifyAndDecryptNetworkMessage",
                               chosen.readerGroup)
                 ELSE chosen.S
       IN IF chosen.processed # 0 /\ msg.verify # Good
          THEN [S |-> UA_NetworkMessage_clear(S2, c), ret |-> msg.verify]
          ELSE
          LET S3 == LogEvent(S2, "decodePayload", c)
              S4 == LogEvent(S3, "decodeFooters", c)
          IN IF msg.footers # Good
             THEN [S |-> UA_NetworkMessage_clear(S4, c), ret |-> msg.footers]
             ELSE [S |-> S4, ret |-> Good]

\* decodeNetworkMessage with a failed verification passed over.
Decode_IgnoreFailedVerify(S, c, msg, encryption) ==
    LET S1 == LogEvent(S, "decodeHeaders", c)
    IN IF msg.headers # Good
       THEN [S |-> UA_NetworkMessage_clear(S1, c), ret |-> msg.headers]
       ELSE
       LET chosen == IF encryption THEN ChooseReaderGroup(S1, c, msg)
                     ELSE [S |-> S1, processed |-> 0, readerGroup |-> 0]
           S2 == IF chosen.processed # 0
                 THEN LogEvent(chosen.S, "verifyAndDecryptNetworkMessage",
                               chosen.readerGroup)
                 ELSE chosen.S
           S3 == LogEvent(S2, "decodePayload", c)
       IN IF msg.payload # Good
          THEN [S |-> UA_NetworkMessage_clear(S3, c), ret |-> msg.payload]
          ELSE
          LET S4 == LogEvent(S3, "decodeFooters", c)
          IN IF msg.footers # Good
             THEN [S |-> UA_NetworkMessage_clear(S4, c), ret |-> msg.footers]
             ELSE [S |-> S4, ret |-> Good]

\* UA_StatusCode decodeNetworkMessage(server, buffer, pos, nm, connection);
\* encryption: the build has UA_ENABLE_PUBSUB_ENCRYPTION.
decodeNetworkMessage(S, c, msg, encryption) ==
    LET S1 == LogEvent(S, "decodeHeaders", c)
    IN IF msg.headers # Good
       THEN [S |-> UA_NetworkMessage_clear(S1, c), ret |-> msg.headers]
       ELSE
       LET chosen == IF encryption THEN ChooseReaderGroup(S1, c, msg)
                     ELSE [S |-> S1, processed |-> 0, readerGroup |-> 0]
           S2 == IF chosen.processed # 0
                 THEN LogEvent(chosen.S, "verifyAndDecryptNetworkMessage",
                               chosen.readerGroup)
                 ELSE chosen.S
       IN IF chosen.processed # 0 /\ msg.verify # Good
          THEN [S |-> UA_NetworkMessage_clear(S2, c), ret |-> msg.verify]
          ELSE
          LET S3 == LogEvent(S2, "decodePayload", c)
          IN IF msg.payload # Good
             THEN [S |-> UA_NetworkMessage_clear(S3, c), ret |-> msg.payload]
             ELSE
             LET S4 == LogEvent(S3, "decodeFooters", c)
             IN IF msg.footers # Good
                THEN [S |-> UA_NetworkMessage_clear(S4, c), ret |-> msg.footers]
                ELSE [S |-> S4, ret |-> Good]

\* The connections, groups and readers a NetworkMessage can arrive at: the
\* entry points that build and take apart the lists decodeNetworkMessage
\* walks.
DecodeNext ==
    \/ AddPubSubConnection
    \/ AddReaderGroup
    \/ AddDataSetReaders
    \/ RemoveReaderGroup

DecodeSpec == FreezeInit /\ [][DecodeNext]_vars

\* The decoding stages a call of decodeNetworkMessage ran, in the order it
\* ran them.
DecodeStageNames ==
    {"decodeHeaders", "verifyAndDecryptNetworkMessage", "decodePayload",
     "decodeFooters"}

DecodeStages(log) ==
    LET stages == SelectSeq(log, LAMBDA e : e.ev \in DecodeStageNames)
    IN [k \in DOMAIN stages |-> stages[k].ev]

\* The status the stage returns on the message.
StageStatus(msg, stage) ==
    CASE stage = "decodeHeaders" -> msg.headers
      [] stage = "verifyAndDecryptNetworkMessage" -> msg.verify
      [] stage = "decodePayload" -> msg.payload
      [] stage = "decodeFooters" -> msg.footers

\* C34: decodeNetworkMessage runs the stages in the order headers, verify and
\* decrypt (when a reader is chosen), payload, footers.  The first stage that
\* fails is the last one run: the network message is cleared and the status
\* of that stage is returned.  Good is returned only after every stage ran
\* and succeeded, and then the message is not cleared.
DecodeStopsAtFirstFailedStage ==
    \A c \in LinkedConnections : \A encryption \in BOOLEAN :
        \A msg \in NetworkMessages(Cur, c) :
            LET r == decodeNetworkMessage(Cur, c, msg, encryption)
                stages == DecodeStages(r.S.log)
                order == IF \E k \in DOMAIN stages :
                               stages[k] = "verifyAndDecryptNetworkMessage"
                         THEN <<"decodeHeaders", "verifyAndDecryptNetworkMessage",
                                "decodePayload", "decodeFooters">>
                         ELSE <<"decodeHeaders", "decodePayload", "decodeFooters">>
                failed == {k \in DOMAIN stages : StageStatus(msg, stages[k]) # Good}
                clears == {i \in DOMAIN r.S.log :
                              r.S.log[i].ev = "networkMessageClear"}
            IN /\ Len(stages) <= Len(order)
               /\ stages = SubSeq(order, 1, Len(stages))
               /\ IF failed = {}
                  THEN /\ r.ret = Good
                       /\ stages = order
                       /\ clears = {}
                  ELSE /\ failed = {Len(stages)}
                       /\ r.ret = StageStatus(msg, stages[Len(stages)])
                       /\ clears = {Len(r.S.log)}

\* A message that a reader of the connection accepts fails the verification:
\* the call returns after two stages.
FailedVerifyEndsDecodingHappens ==
    \E c \in LinkedConnections : \E msg \in NetworkMessages(Cur, c) :
        LET r == decodeNetworkMessage(Cur, c, msg, TRUE)
        IN /\ r.ret = BadSecurityChecksFailed
           /\ msg.payload # Good
           /\ DecodeStages(r.S.log) =
                 <<"decodeHeaders", "verifyAndDecryptNetworkMessage">>

\* The positions in the log of a call where the function was called.
DecodeCalls(log, fn) == {i \in DOMAIN log : log[i].ev = fn}

\* LIST_INSERT_HEAD puts the newest element first: the order in which the
\* elements of a list were inserted is the reverse of the list.
InsertionOrder(list) == [k \in DOMAIN list |-> list[Len(list) + 1 - k]]

\* The ReaderGroup of the first position of the walk that the message
\* accepts, 0 if it accepts none.
FirstAccepted(walk, msg) ==
    LET hits == {k \in DOMAIN walk : walk[k] \in msg.accepted}
    IN IF hits = {} THEN 0
       ELSE walk[CHOOSE k \in hits : \A h \in hits : k <= h][1]

\* What C35 says of a message whose headers decode, for a walk in the given
\* order of the groups.
VerifiesFirstAccepted(c, msg, first) ==
    LET r == decodeNetworkMessage(Cur, c, msg, TRUE)
        verifies == DecodeCalls(r.S.log, "verifyAndDecryptNetworkMessage")
        checks == DecodeCalls(r.S.log, "checkIdentifier")
    IN /\ Cardinality(verifies) <= 1
       /\ IF first = 0
          THEN /\ verifies = {}
               /\ DecodeCalls(r.S.log, "decodePayload") # {}
               /\ r.ret = IF msg.payload # Good THEN msg.payload ELSE msg.footers
               /\ msg.payload = Good => DecodeCalls(r.S.log, "decodeFooters") # {}
          ELSE /\ \E i \in verifies :
                     /\ r.S.log[i].id = first
                     /\ \A k \in checks : k < i
               /\ msg.verify # Good =>
                     /\ r.ret = msg.verify
                     /\ DecodeCalls(r.S.log, "decodePayload") = {}
               /\ msg.verify = Good => DecodeCalls(r.S.log, "decodePayload") # {}

\* C35 (as stated): with encryption compiled in, decodeNetworkMessage walks
\* the readers of the connection in the order they were inserted and calls
\* verifyAndDecryptNetworkMessage at most once, on the ReaderGroup of the
\* first reader checkIdentifier accepts; a successful verify ends the search,
\* a failed one returns its error, and with no accepting reader verify is
\* not called and the payload and the footers are decoded.
VerifyOnFirstInsertedAcceptingReader ==
    \A c \in LinkedConnections : \A msg \in NetworkMessages(Cur, c) :
        msg.headers = Good =>
            VerifiesFirstAccepted(c, msg,
                FirstAccepted(InsertionOrder(
                    ReaderWalk(Cur, Cur.conns[c].readerGroups)), msg))

\* C35 (amended): the same, with the readers walked in list order, which is
\* from the ReaderGroup added last to the one added first.
VerifyOnFirstListedAcceptingReader ==
    \A c \in LinkedConnections : \A msg \in NetworkMessages(Cur, c) :
        msg.headers = Good =>
            VerifiesFirstAccepted(c, msg,
                FirstAccepted(ReaderWalk(Cur, Cur.conns[c].readerGroups), msg))

\* A message that readers of two ReaderGroups accept is verified with the
\* group added last.
TwoGroupsAcceptMessageHappens ==
    \E c \in LinkedConnections : \E msg \in NetworkMessages(Cur, c) :
        LET gs == Cur.conns[c].readerGroups
            r == decodeNetworkMessage(Cur, c, msg, TRUE)
        IN /\ Len(gs) = 2
           /\ \A k \in DOMAIN gs : \E p \in msg.accepted : p[1] = gs[k]
           /\ \E i \in DecodeCalls(r.S.log, "verifyAndDecryptNetworkMessage") :
                 r.S.log[i].id = gs[1]
           /\ r.ret = Good

\* How often the call that left the log ran the receive step of group g.
Receives(log, g) ==
    Cardinality({i \in DOMAIN log : log[i].ev = "receive" /\ log[i].id = g})

\* C36: a call that registers the cyclic subscribe callback of a ReaderGroup
\* runs the receive step exactly once before it returns if the group's
\* enableBlockingSocket is false, and not at all if it is true; a call that
\* does not register the callback, because the registration fails or the
\* callback is registered already, runs no receive step.  This holds of
\* UA_ReaderGroup_addSubscribeCallback and of every state request that
\* reaches it.
FirstTickFollowsRegistration ==
    \A g \in LinkedGroups, inp \in ScheduleInputs :
        (Live(readerGroups, g) /\ readerGroups[g].linkedConnection # 0) =>
            /\ LET r == UA_ReaderGroup_addSubscribeCallback(UA_LOCK(Cur), g, inp)
               IN Receives(r.S.log, g) =
                     IF r.ret = Good /\ ~readerGroups[g].config.enableBlockingSocket
                     THEN 1 ELSE 0
            /\ \A state \in PubSubStates :
                  LET r == UA_ReaderGroup_setPubSubState(UA_LOCK(Cur), g, state,
                                                         Good, inp)
                      registered == /\ readerGroups[g].subscribeCallbackId = 0
                                    /\ r.S.groups[g].subscribeCallbackId # 0
                  IN Receives(r.S.log, g) =
                        IF registered /\ ~readerGroups[g].config.enableBlockingSocket
                        THEN 1 ELSE 0

\* A PreOperational request on a Disabled group without a blocking socket
\* registers the callback and runs the receive step once inside the call;
\* the same request with a failing registration runs none.
RegistrationRunsFirstTickHappens ==
    \E g \in LinkedGroups :
        LET r == UA_ReaderGroup_setPubSubState(UA_LOCK(Cur), g, PreOperational,
                                               Good, NoInput)
            failed == UA_ReaderGroup_setPubSubState(
                          UA_LOCK(Cur), g, PreOperational, Good,
                          [NoInput EXCEPT !.elOk = FALSE])
        IN /\ Live(readerGroups, g)
           /\ readerGroups[g].state = Disabled
           /\ readerGroups[g].subscribeCallbackId = 0
           /\ ~readerGroups[g].config.enableBlockingSocket
           /\ r.ret = Good
           /\ r.S.groups[g].subscribeCallbackId # 0
           /\ Receives(r.S.log, g) = 1
           /\ failed.S.groups[g].subscribeCallbackId = 0
           /\ Receives(failed.S.log, g) = 0


\* C37: a freeze of an unfrozen FixedSize ReaderGroup wants exactly one
\* DataSetReader.  With more than one reader it returns BadNotImplemented;
\* with none it returns a status code and reads no reader, so no missing
\* first reader is dereferenced.
FreezeValidatesReaderCount ==
    \A g \in LinkedGroups, inp \in FreezeInputs :
        LET rg == readerGroups[g]
            r == UA_Server_freezeReaderGroupConfiguration(Cur, g, inp)
        IN (/\ Live(readerGroups, g)
            /\ rg.config.rtLevel = RtFixedSize
            /\ ~rg.configurationFrozen)
           => /\ Len(rg.readers) > 1 => r.ret = BadNotImplemented
              /\ Len(rg.readers) = 0 => r.ret # NullDereference


\* C38: on every exit path of the freeze, every target node that
\* UA_NODESTORE_GET returned has been released exactly once: there are as
\* many releases as successful gets, each release follows the get of its
\* node, and no release is made for a node that get did not return.
FreezeReleasesEveryNodeOnce ==
    \A g \in LinkedGroups, inp \in FreezeInputs :
        LET r == UA_Server_freezeReaderGroupConfiguration(Cur, g, inp)
            log == r.S.log
            gets == {i \in DOMAIN log : log[i].ev = "nodestoreGet" /\ log[i].id # 0}
            releases == {i \in DOMAIN log : log[i].ev = "nodestoreRelease"}
        IN Live(readerGroups, g) =>
              /\ Cardinality(releases) = Cardinality(gets)
              /\ \A i \in releases :
                    /\ log[i].id # 0
                    /\ \E k \in gets : k < i /\ log[k].id = log[i].id
              /\ \A k \in gets :
                    Cardinality({i \in releases : log[i].id = log[k].id}) = 1

=============================================================================
